---- MODULE Spec2Model ----
(***************************************************************************)
(* Simple_Scope: the instrument session and capture protocol.              *)
(*                                                                         *)
(* Python strings whose content the code inspects are sequences of         *)
(* one-character strings; None of an optional string is the value None.    *)
(* A handler is one action; the answers of the transport during the        *)
(* handler (which open succeeds, which write/query/read raises) are        *)
(* inputs of the action, and the calls it made are kept in last.ev.        *)
(***************************************************************************)
EXTENDS Integers, Sequences, FiniteSets, TLC

VARIABLES
    scope,                  \* SimpleScope.scope: a driver object, NoScope for None
    scope_addr,             \* SimpleScope.scope_addr
    selected_scope_driver,  \* SimpleScope.selected_scope_driver
    instrument_list,        \* SimpleScope.instrument_list
    device_id,              \* SimpleScope.device_id
    handles,                \* every transport handle opened so far: owner, closes
    drivers,                \* number of driver objects constructed so far
    errq,                   \* the instrument's pending answers to SYST:ERR?
    files,                  \* the files in the instrument's C:/temp
    disk,                   \* the destination image file on local disk
    sidecar,                \* the metadata file next to the image file
    waveform,               \* the waveform file on local disk
    config,                 \* AppConfig.config: the settings the claims are about
    logger,                 \* a Logger: _entries, _min_level, _callbacks
    recent,                 \* SimpleScope.recent: the record of the last capture
    controller,             \* a legacy ScopeController: device, device_id, its sessions
    gui,                    \* ScopeCaptureGUI: what its constructor leaves
    bus,                    \* the addresses on the VISA bus and their answers
    last                    \* the last handler run: its name, result and calls

vars == <<scope, scope_addr, selected_scope_driver, instrument_list, device_id,
          handles, drivers, errq, files, disk, sidecar, waveform, config, logger, recent, controller, gui, bus, last>>

(***************************************************************************)
(* Bounds of the model.                                                    *)
(***************************************************************************)
MaxHandles == 3     \* transport handles opened in one behaviour
MaxDrivers == 2     \* driver objects constructed in one behaviour
MaxIO == 6          \* transport calls of one handler that may be made to fail
MaxErrQ == 3        \* answers in the error queue that check_errors meets
MaxPending == 2     \* errors the instrument queues next to the captures
MaxBus == 2         \* addresses on the bus that find_instruments scans
MaxIdLen == 5       \* characters of an identification string handed to the parser
MaxDirs == 6        \* directory names handed to set_save_directory
MaxNameLen == 4     \* characters of a file name handed to the utils functions
MaxCallbacks == 2   \* listeners registered with a Logger at one time
MaxEntries == 2     \* entries a Logger holds
MaxSessions == 4    \* sessions a legacy ScopeController opens in one behaviour
MaxDrain == 4       \* records of a running check_errors the model follows

(***************************************************************************)
(* Values.                                                                 *)
(***************************************************************************)
None == <<"None">>
NoAddr == "None"
Addresses == {"USB0", "TCPIP0"}
NoDriverClass == "None"
TektronixScopeDriver == "TektronixScopeDriver"
ScopeDriverClass == "ScopeDriver"
NoScope == [id |-> 0, address |-> NoAddr, adaptor |-> 0, rm |-> FALSE]

\* TektronixScopeDriver._scope_temp_dir
scope_temp_dir == "C:/temp"
TempPng == "temp.png"

\* The exceptions the code raises or lets through.
ErrNoAddress == "ValueError: Device address is not set."
ErrNoScope == "ValueError: No oscilloscope connected"
ErrInt == "ValueError: invalid literal for int()"
ErrNoneType == "AttributeError: 'NoneType' object has no attribute"
ErrAttribute == "AttributeError: 'AppConfig' object has no attribute"
ErrVisa == "VisaIOError"
ErrOS == "OSError"
ErrNotImplemented == "NotImplementedError: This method should be implemented in a subclass."
ErrMissingArgument == "TypeError: missing required positional argument"

RECURSIVE SeqOfSet(_)
\* The elements of a finite set of strings as a sequence, in a fixed order.
SeqOfSet(S) ==
    IF S = {} THEN <<>>
    ELSE LET x == CHOOSE y \in S : TRUE IN <<x>> \o SeqOfSet(S \ {x})

(***************************************************************************)
(* The transport (pyvisa).  A context c carries the driver object d, the   *)
(* handles, the instrument, the calls made so far (ev) and the answers the *)
(* transport will give: opens is the outcome of each open_resource in      *)
(* order, fails the set of write/query/read_raw calls (counted from 1 in   *)
(* the handler) that raise VisaIOError.  exc is the exception in flight.   *)
(***************************************************************************)
Ev(op, h, cmd, ok) == [op |-> op, h |-> h, cmd |-> cmd, ok |-> ok]
Cmd(verb, path) == [verb |-> verb, path |-> path]
NoCmd == Cmd("", <<>>)

Ctx(d, opens, fails) ==
    [d |-> d, hs |-> handles, errq |-> errq, files |-> files,
     ev |-> <<>>, n |-> 0, opens |-> opens, fails |-> fails,
     exc |-> "", ret |-> None]

OpenHandles(hs) == {h \in 1..Len(hs) : hs[h].closes = 0}
OpenOf(hs, id) == {h \in OpenHandles(hs) : hs[h].owner = id}

\* resource_manager.open_resource(address)
open_resource(c) ==
    LET ok == IF c.opens = <<>> THEN TRUE ELSE Head(c.opens)
        rest == IF c.opens = <<>> THEN <<>> ELSE Tail(c.opens)
        h == Len(c.hs) + 1
    IN  IF ok
        THEN [c EXCEPT !.opens = rest,
                       !.hs = Append(@, [owner |-> c.d.id, closes |-> 0]),
                       !.ev = Append(@, Ev("open", h, NoCmd, TRUE)),
                       !.exc = "", !.ret = h]
        ELSE [c EXCEPT !.opens = rest,
                       !.ev = Append(@, Ev("open", 0, NoCmd, FALSE)),
                       !.exc = ErrVisa]

\* adaptor.close()
close(c, h) ==
    [c EXCEPT !.hs[h].closes = @ + 1,
              !.ev = Append(@, Ev("close", h, NoCmd, TRUE))]

(***************************************************************************)
(* ScopeDriver (base_scope_driver.py).                                     *)
(***************************************************************************)
\* ScopeDriver.connect from the address check on (lines 56-68)
ConnectBody(c) ==
    IF c.d.address = NoAddr
    THEN [c EXCEPT !.exc = ErrNoAddress, !.ret = None]
    ELSE LET o == open_resource([c EXCEPT !.d.rm = TRUE])
         IN  IF o.exc = ""
             THEN [o EXCEPT !.d.adaptor = o.ret, !.ret = TRUE]
             ELSE [o EXCEPT !.exc = "", !.ret = FALSE]

\* A slip in the address setter: self.adaptor is not reset, so that a
\* failed open leaves the closed handle in place.
address_setter_KeepsAdaptor(c, address) ==
    LET c1 == IF c.d.adaptor # 0 THEN close(c, c.d.adaptor) ELSE c
        c2 == [c1 EXCEPT !.d.address = address]
    IN  IF address # NoAddr
        THEN [ConnectBody(c2) EXCEPT !.ret = None]
        ELSE c2

\* ScopeDriver.address setter
address_setter(c, address) ==
    LET c1 == IF c.d.adaptor # 0 THEN close(c, c.d.adaptor) ELSE c
        c2 == [c1 EXCEPT !.d.address = address, !.d.adaptor = 0]
    IN  IF address # NoAddr
        THEN [ConnectBody(c2) EXCEPT !.ret = None]
        ELSE c2

\* ScopeDriver.connect(address=None)
connect(c, address) ==
    IF address # NoAddr
    THEN LET s == address_setter(c, address)
         IN  IF s.exc # "" THEN s ELSE ConnectBody(s)
    ELSE ConnectBody(c)

\* A slip in disconnect: the handle is closed and self.adaptor is not
\* reset, so that a second disconnect closes the handle again.
disconnect_KeepsAdaptor(c) ==
    LET c1 == IF c.d.adaptor # 0 THEN close(c, c.d.adaptor) ELSE c
    IN  [c1 EXCEPT !.d.rm = FALSE, !.ret = None]

\* ScopeDriver.disconnect
disconnect(c) ==
    LET c1 == IF c.d.adaptor # 0
              THEN [close(c, c.d.adaptor) EXCEPT !.d.adaptor = 0]
              ELSE c
    IN  [c1 EXCEPT !.d.rm = FALSE, !.ret = None]

\* ScopeDriver.is_connected
is_connected(d) == d.adaptor # 0

\* ScopeDriver.__init__(address)
ScopeDriver_init(c, address) ==
    address_setter(
        [c EXCEPT !.d = [id |-> drivers + 1, address |-> NoAddr,
                         adaptor |-> 0, rm |-> FALSE]],
        address)

\* ScopeDriver._save_waveform_data(file_path, *args, **kwargs) called with
\* the positional arguments args
ScopeDriver_save_waveform_data(c, args) ==
    IF Len(args) < 1 THEN [c EXCEPT !.exc = ErrMissingArgument, !.ret = None]
    ELSE [c EXCEPT !.exc = ErrNotImplemented, !.ret = None]

\* ScopeDriver.capture_screenshot(save_dir, filename, suffix, bg_color,
\* save_waveform, metadata, *args, **kwargs) called with the positional
\* arguments args
ScopeDriver_capture_screenshot(c, args) ==
    IF Len(args) < 2 THEN [c EXCEPT !.exc = ErrMissingArgument, !.ret = None]
    ELSE [c EXCEPT !.exc = ErrNotImplemented, !.ret = None]

(***************************************************************************)
(* Python string operations, on sequences of characters.                   *)
(***************************************************************************)
Whitespace == {" ", "\n", "\t", "\r"}
DigitChars == {"0", "1", "2", "3", "4", "5", "6", "7", "8", "9"}
DigitVal(ch) ==
    CASE ch = "0" -> 0 [] ch = "1" -> 1 [] ch = "2" -> 2 [] ch = "3" -> 3
      [] ch = "4" -> 4 [] ch = "5" -> 5 [] ch = "6" -> 6 [] ch = "7" -> 7
      [] ch = "8" -> 8 [] ch = "9" -> 9

RECURSIVE lstrip(_, _)
lstrip(s, cs) == IF s # <<>> /\ Head(s) \in cs THEN lstrip(Tail(s), cs) ELSE s

RECURSIVE rstrip(_, _)
rstrip(s, cs) ==
    IF s # <<>> /\ s[Len(s)] \in cs THEN rstrip(SubSeq(s, 1, Len(s) - 1), cs) ELSE s

\* str.strip(chars); str.strip() is strip(s, Whitespace)
strip(s, cs) == rstrip(lstrip(s, cs), cs)

\* The first position of ch in s, 0 when it does not occur.
IndexOf(s, ch) ==
    IF \E i \in 1..Len(s) : s[i] = ch
    THEN CHOOSE i \in 1..Len(s) : s[i] = ch /\ \A j \in 1..(i - 1) : s[j] # ch
    ELSE 0

\* str.split(ch, 1)
split_once(s, ch) ==
    LET i == IndexOf(s, ch)
    IN  IF i = 0 THEN <<s>> ELSE <<SubSeq(s, 1, i - 1), SubSeq(s, i + 1, Len(s))>>

RECURSIVE split(_, _)
\* str.split(ch)
split(s, ch) ==
    LET i == IndexOf(s, ch)
    IN  IF i = 0 THEN <<s>>
        ELSE <<SubSeq(s, 1, i - 1)>> \o split(SubSeq(s, i + 1, Len(s)), ch)

RECURSIVE DigitsValue(_)
DigitsValue(s) ==
    IF s = <<>> THEN 0
    ELSE 10 * DigitsValue(SubSeq(s, 1, Len(s) - 1)) + DigitVal(s[Len(s)])

\* int(s): [ok, v]; not ok is ValueError
int(s) ==
    LET t == strip(s, Whitespace)
        signed == t # <<>> /\ Head(t) \in {"-", "+"}
        body == IF signed THEN Tail(t) ELSE t
        ok == body # <<>> /\ \A i \in 1..Len(body) : body[i] \in DigitChars
    IN  [ok |-> ok,
         v |-> IF ~ok THEN 0
               ELSE IF signed /\ Head(t) = "-" THEN 0 - DigitsValue(body)
               ELSE DigitsValue(body)]

(***************************************************************************)
(* The instrument behind the transport: it executes what a write delivers  *)
(* and answers the queries.                                                *)
(***************************************************************************)
Quote == "\""
TempPath == <<scope_temp_dir, <<TempPng>>>>
SaveImage == Cmd("SAVE:IMAGe", TempPath)
OpcQuery == Cmd("*OPC?", <<>>)
ReadFile == Cmd("FILESystem:READFile", TempPath)
ReadRaw == Cmd("read_raw", <<>>)
DeleteTemp == Cmd("FILESystem:DELEte", TempPath)
ErrQuery == Cmd("SYST:ERR?", <<>>)
MkDir == Cmd("FILESystem:MKDir", <<scope_temp_dir>>)
Cwd == Cmd("FILESystem:CWD", <<scope_temp_dir>>)
DirQuery == Cmd("FILESystem:DIR?", <<>>)
DeleteFile(filename) == Cmd("FILESystem:DELEte", <<scope_temp_dir, filename>>)
ImgBytes == <<"PNG", "IHDR", "IEND">>

\* The answers SYST:ERR? can give.
NoError == <<"0", ",", Quote, "N", "o", Quote>>
Err5 == <<"5", ",", Quote, "a", ",", "b", Quote>>
Err3 == <<"3", ",", Quote, "c", Quote, "\n">>
ErrNeg == <<"-", "1", "0">>
ErrGarbled == <<"?">>
ErrResponses == {NoError, Err5, Err3, ErrNeg, ErrGarbled}
PendingResponses == {Err5, Err3, ErrGarbled}

RECURSIVE JoinQuoted(_)
JoinQuoted(names) ==
    IF names = <<>> THEN <<>>
    ELSE <<Quote>> \o Head(names) \o <<Quote>>
         \o (IF Len(names) > 1 THEN <<",">> ELSE <<>>) \o JoinQuoted(Tail(names))

RECURSIVE NamesOf(_)
NamesOf(fs) == IF fs = <<>> THEN <<>> ELSE <<<<Head(fs)>>>> \o NamesOf(Tail(fs))

\* The answer to FILESystem:DIR?; a file name is one character of it.
Listing(fs) ==
    IF fs = {} THEN <<Quote, Quote>>
    ELSE JoinQuoted(<< <<".">>, <<".", ".">> >> \o NamesOf(SeqOfSet(fs))) \o <<"\n">>

Execute(c, cmd) ==
    CASE cmd.verb = "SAVE:IMAGe" -> [c EXCEPT !.files = @ \cup {TempPng}]
      [] cmd.verb = "FILESystem:DELEte" ->
            [c EXCEPT !.files = {f \in @ : <<f>> # cmd.path[2]}]
      [] OTHER -> c

Answer(c, cmd) ==
    CASE cmd.verb = "SYST:ERR?" ->
            IF c.errq = <<>> THEN [c EXCEPT !.ret = NoError]
            ELSE [c EXCEPT !.ret = Head(c.errq), !.errq = Tail(c.errq)]
      [] cmd.verb = "FILESystem:DIR?" -> [c EXCEPT !.ret = Listing(c.files)]
      [] cmd.verb = "read_raw" -> [c EXCEPT !.ret = ImgBytes]
      [] OTHER -> [c EXCEPT !.ret = <<"1", "\n">>]

\* One call on self.adaptor: op is write, query or read_raw.
Call(c, op, cmd) ==
    IF c.d.adaptor = 0
    THEN [c EXCEPT !.exc = ErrNoneType]
    ELSE LET k == c.n + 1
             ok == k \notin c.fails
             c1 == [c EXCEPT !.n = k,
                             !.ev = Append(@, Ev(op, c.d.adaptor, cmd, ok))]
         IN  IF ~ok THEN [c1 EXCEPT !.exc = ErrVisa]
             ELSE IF op = "write" THEN [Execute(c1, cmd) EXCEPT !.ret = None]
             ELSE Answer(c1, cmd)

write(c, cmd) == Call(c, "write", cmd)
query(c, cmd) == Call(c, "query", cmd)
read_raw(c) == Call(c, "read_raw", ReadRaw)

(***************************************************************************)
(* SCPIMixin (base_scpi.py).                                               *)
(***************************************************************************)
\* F applied to the value of x: x is evaluated once, where a LET name is
\* evaluated again at each use.
Apply(F(_), x) == CHOOSE r \in {F(v) : v \in {x}} : TRUE

\* the end of next_error: q is the context after the query, parts the
\* split response, code what int(parts[0]) gives
next_error_record(q, parts, code) ==
    IF ~code.ok THEN [q EXCEPT !.exc = ErrInt, !.ret = None]
    ELSE [q EXCEPT !.ret = <<code.v, IF Len(parts) > 1
                                      THEN strip(parts[2], {Quote}) ELSE <<>> >>]

\* next_error from the split of the response on
next_error_parts(q, parts) ==
    Apply(LAMBDA code : next_error_record(q, parts, code), int(parts[1]))

\* next_error after the query, q being the context the query left
next_error_response(q) ==
    IF q.exc # "" THEN q
    ELSE Apply(LAMBDA parts : next_error_parts(q, parts),
               split_once(strip(q.ret, Whitespace), ","))

\* SCPIMixin.next_error: ret is <<code, message>>
next_error(c) == Apply(next_error_response, query(c, ErrQuery))

RECURSIVE check_errors_loop(_, _)
\* the while loop of SCPIMixin.check_errors, errors being the list so far
check_errors_loop(c, errors) ==
    LET e == next_error(c)
    IN  IF e.exc # "" THEN e
        ELSE IF e.ret[1] # 0 THEN check_errors_loop(e, Append(errors, e.ret))
        ELSE [e EXCEPT !.ret = errors]

\* A slip in check_errors: an if where the while belongs, so that only
\* the first answer is read.
check_errors_ReadsOnce(c) ==
    LET e == next_error(c)
    IN  IF e.exc # "" THEN e
        ELSE IF e.ret[1] # 0 THEN [e EXCEPT !.ret = <<e.ret>>]
        ELSE [e EXCEPT !.ret = <<>>]

\* SCPIMixin.check_errors
check_errors(c) == check_errors_loop(c, <<>>)

(***************************************************************************)
(* TektronixScopeDriver (tektronix_scope_driver.py).                       *)
(***************************************************************************)
RECURSIVE DeleteListed(_, _)
\* the for loop of clear_temp_directory over the parsed listing
DeleteListed(c, names) ==
    IF names = <<>> \/ c.exc # "" THEN c
    ELSE LET filename == Head(names)
         IN  IF filename # <<>> /\ filename \notin {<<".">>, <<".", ".">>}
             THEN DeleteListed(write(c, DeleteFile(filename)), Tail(names))
             ELSE DeleteListed(c, Tail(names))

RECURSIVE StripEach(_)
\* [f.strip('"') for f in parts if f.strip()]
StripEach(parts) ==
    IF parts = <<>> THEN <<>>
    ELSE (IF strip(Head(parts), Whitespace) # <<>>
          THEN <<strip(Head(parts), {Quote})>> ELSE <<>>) \o StripEach(Tail(parts))

\* TektronixScopeDriver.clear_temp_directory
clear_temp_directory(c) ==
    LET w == write(c, Cwd)
        q == IF w.exc = "" THEN query(w, DirQuery) ELSE w
        dir_contents == strip(q.ret, Whitespace)
        d == IF q.exc # "" THEN q
             ELSE IF dir_contents # <<>> /\ dir_contents # <<Quote, Quote>>
             THEN DeleteListed(q, StripEach(split(dir_contents, ",")))
             ELSE q
    IN  [d EXCEPT !.exc = "", !.ret = None]

\* TektronixScopeDriver.setup_screenshot_dir
setup_screenshot_dir(c) ==
    clear_temp_directory([write(c, MkDir) EXCEPT !.exc = ""])

\* TektronixScopeDriver.__init__(address)
Tektronix_init(c, address) ==
    LET b == ScopeDriver_init(c, address)
    IN  IF b.exc # "" THEN b ELSE setup_screenshot_dir(b)

\* The next call of a try block: skipped once an exception is in flight.
Then(c, op, cmd) == IF c.exc # "" THEN c ELSE Call(c, op, cmd)

\* A slip in CaptureFailed: the failure handler gives the session up.
CaptureFailed_DropsSession(failed, e) ==
    [e EXCEPT !.exc = IF e.exc # "" THEN e.exc ELSE failed.exc, !.ret = None,
              !.d.adaptor = 0]

\* the except clause of get_screenshot_brian, failed being the context
\* the try block raised in
CaptureFailed(failed, e) ==
    IF e.exc # "" THEN [e EXCEPT !.ret = None]
    ELSE [e EXCEPT !.exc = failed.exc, !.ret = None]

\* the end of get_screenshot_brian: read is the context after read_raw,
\* deleted the one after the DELEte
CaptureDone(read, deleted) ==
    IF deleted.exc = "" THEN [deleted EXCEPT !.ret = read.ret]
    ELSE CaptureFailed(deleted, next_error([deleted EXCEPT !.exc = ""]))

\* A slip in CaptureRead: the bytes are returned and the temp file is
\* left on the instrument.
CaptureRead_NoDelete(read) ==
    IF read.exc = "" THEN read
    ELSE CaptureFailed(read, next_error([read EXCEPT !.exc = ""]))

\* the try block of get_screenshot_brian from the read_raw on
CaptureRead(read) == CaptureDone(read, Then(read, "write", DeleteTemp))

\* A slip in get_screenshot_brian: the file is read back without waiting
\* for the operation-complete answer.
get_screenshot_brian_NoOpcWait(c) ==
    CaptureRead(Then(Then(Then(write(c, SaveImage), "write", ReadFile),
                          "query", OpcQuery),
                     "read_raw", ReadRaw))

\* TektronixScopeDriver.get_screenshot_brian
get_screenshot_brian(c) ==
    CaptureRead(Then(Then(Then(write(c, SaveImage), "query", OpcQuery),
                          "write", ReadFile),
                     "read_raw", ReadRaw))

\* TektronixScopeDriver.capture_screenshot
capture_screenshot(c) == get_screenshot_brian(c)

(***************************************************************************)
(* File names (utils.py).  A name is a sequence of characters; a letter    *)
(* stands for any character that is no digit, dot or underscore.           *)
(***************************************************************************)
startswith(s, prefix) ==
    Len(prefix) <= Len(s) /\ SubSeq(s, 1, Len(prefix)) = prefix
endswith(s, suffix) ==
    Len(suffix) <= Len(s) /\ SubSeq(s, Len(s) - Len(suffix) + 1, Len(s)) = suffix

\* A slip in filename_with_suffix: the suffix is compared as it was given
\* and the dot is added only when the suffix is appended.
filename_with_suffix_DotOnAppend(filename, suffix) ==
    IF endswith(filename, suffix) THEN filename
    ELSE IF ~startswith(suffix, <<".">>) THEN filename \o <<".">> \o suffix
    ELSE filename \o suffix

\* filename_with_suffix(filename, suffix), in utils.py and, with the same
\* body, as the static method ScopeDriver.filename_with_suffix
filename_with_suffix(filename, suffix) ==
    LET sfx == IF ~startswith(suffix, <<".">>) THEN <<".">> \o suffix ELSE suffix
    IN  IF endswith(filename, sfx) THEN filename ELSE filename \o sfx

RECURSIVE rfind(_, _)
\* str.rfind(ch), 0-based, -1 when ch does not occur
rfind(s, ch) ==
    IF s = <<>> THEN 0 - 1
    ELSE IF s[Len(s)] = ch THEN Len(s) - 1
    ELSE rfind(SubSeq(s, 1, Len(s) - 1), ch)

\* pathlib: Path(name).suffix and Path(name).stem of a name without
\* separators
PathSuffix(name) ==
    LET i == rfind(name, ".")
    IN  IF 0 < i /\ i < Len(name) - 1 THEN SubSeq(name, i + 1, Len(name)) ELSE <<>>
PathStem(name) ==
    LET i == rfind(name, ".")
    IN  IF 0 < i /\ i < Len(name) - 1 THEN SubSeq(name, 1, i) ELSE name

RECURSIVE DigitRun(_)
\* the length of the longest run of digits that ends s
DigitRun(s) ==
    IF s # <<>> /\ s[Len(s)] \in DigitChars
    THEN 1 + DigitRun(SubSeq(s, 1, Len(s) - 1)) ELSE 0

\* re.search(r'_(\d+)$', base): [found, start (0-based), group]
CounterMatch(base) ==
    LET k == DigitRun(base)
    IN  IF k >= 1 /\ k < Len(base) /\ base[Len(base) - k] = "_"
        THEN [found |-> TRUE, start |-> Len(base) - k - 1,
              group |-> SubSeq(base, Len(base) - k + 1, Len(base))]
        ELSE [found |-> FALSE, start |-> 0, group |-> <<>>]

DigitChar(d) ==
    CASE d = 0 -> "0" [] d = 1 -> "1" [] d = 2 -> "2" [] d = 3 -> "3" [] d = 4 -> "4"
      [] d = 5 -> "5" [] d = 6 -> "6" [] d = 7 -> "7" [] d = 8 -> "8" [] d = 9 -> "9"

RECURSIVE str_int(_)
\* str(n) of a natural number
str_int(n) == IF n < 10 THEN <<DigitChar(n)>> ELSE str_int(n \div 10) \o <<DigitChar(n % 10)>>

RECURSIVE zfill(_, _)
\* str.zfill(width) of a string of digits
zfill(s, width) == IF Len(s) >= width THEN s ELSE zfill(<<"0">> \o s, width)

\* A slip in increment_filename: the new counter is not padded.
increment_filename_NoPadding(filename) ==
    LET base == PathStem(filename)
        ext == PathSuffix(filename)
        match == CounterMatch(base)
    IN  IF match.found
        THEN SubSeq(base, 1, match.start) \o <<"_">>
             \o str_int(DigitsValue(match.group) + 1) \o ext
        ELSE base \o <<"_", "0", "0", "1">> \o ext

\* increment_filename(filename)
increment_filename(filename) ==
    LET base == PathStem(filename)
        ext == PathSuffix(filename)
        match == CounterMatch(base)
    IN  IF match.found
        THEN SubSeq(base, 1, match.start) \o <<"_">>
             \o zfill(str_int(DigitsValue(match.group) + 1), Len(match.group)) \o ext
        ELSE base \o <<"_", "0", "0", "1">> \o ext

(***************************************************************************)
(* AppConfig (config.py): the keys of AppConfig.config.                    *)
(* A directory handed to the configuration is a str or a pathlib.Path;     *)
(* the configuration stores str(directory).                                *)
(***************************************************************************)
DefaultSaveDirectory == "~/Pictures/scope_capture"

\* AppConfig.__init__ with no configuration file to load: the keys of
\* self.config, and attr_last_used_metadata for the instance attribute
\* last_used_metadata that SimpleScope.capture assigns (None: not set)
DefaultConfig ==
    [save_directory |-> DefaultSaveDirectory, default_filename |-> <<"capture">>,
     filename |-> None, file_format |-> <<"png">>,
     background_color |-> <<"white">>, save_waveform |-> FALSE,
     auto_increment |-> FALSE, datestamp |-> FALSE,
     last_used_metadata |-> <<>>, recent_directories |-> <<>>,
     attr_last_used_metadata |-> None]

StrDir(name) == [type |-> "str", name |-> name]
PathDir(name) == [type |-> "Path", name |-> name]

\* str(directory)
str(directory) == directory.name

\* `directory in list` for a list of str: a Path equals no str
InList(directory, list) ==
    directory.type = "str" /\ \E i \in 1..Len(list) : list[i] = directory.name

\* list[:n]
Take(list, n) == SubSeq(list, 1, IF Len(list) < n THEN Len(list) ELSE n)

\* A slip in set_save_directory: the list is not cut back to 5 entries.
set_save_directory_Unbounded(cfg, directory) ==
    IF ~InList(directory, cfg.recent_directories)
    THEN [cfg EXCEPT !.save_directory = str(directory),
                     !.recent_directories = <<str(directory)>> \o @]
    ELSE [cfg EXCEPT !.save_directory = str(directory)]

\* AppConfig.set_save_directory(directory)
set_save_directory(cfg, directory) ==
    IF ~InList(directory, cfg.recent_directories)
    THEN [cfg EXCEPT !.save_directory = str(directory),
                     !.recent_directories = Take(<<str(directory)>> \o @, 5)]
    ELSE [cfg EXCEPT !.save_directory = str(directory)]

\* AppConfig.get_save_directory(): the directory is made (mkdir: "ok" or
\* "fails", whether it can be), then str(Path(save_directory)) of a
\* directory name without separators is returned
get_save_directory(cfg, mkdir) ==
    IF mkdir # "ok" THEN [ret |-> None, exc |-> ErrOS]
    ELSE [ret |-> StrDir(cfg.save_directory), exc |-> ""]

\* A slip in set_auto_increment: the other flag is left alone.
set_auto_increment_KeepsDatestamp(cfg, enabled) ==
    [cfg EXCEPT !.auto_increment = enabled]

\* AppConfig.set_auto_increment(enabled)
set_auto_increment(cfg, enabled) ==
    IF enabled THEN [cfg EXCEPT !.auto_increment = enabled, !.datestamp = FALSE]
    ELSE [cfg EXCEPT !.auto_increment = enabled]

\* AppConfig.set_datestamp(enabled)
set_datestamp(cfg, enabled) ==
    IF enabled THEN [cfg EXCEPT !.datestamp = enabled, !.auto_increment = FALSE]
    ELSE [cfg EXCEPT !.datestamp = enabled]

\* AppConfig.update_config(key, value): [config, ret]
update_config(cfg, key, value) ==
    IF key \in DOMAIN cfg \ {"attr_last_used_metadata"}
    THEN [config |-> [cfg EXCEPT ![key] = value], ret |-> TRUE]
    ELSE [config |-> cfg, ret |-> FALSE]

\* AppConfig.get_default_file_format(): [config, ret]; the dot is added
\* to the stored value
get_default_file_format(cfg) ==
    LET fmt == IF \A i \in 1..Len(cfg.file_format) : cfg.file_format[i] # "."
               THEN <<".">> \o cfg.file_format
               ELSE cfg.file_format
    IN  [config |-> [cfg EXCEPT !.file_format = fmt], ret |-> fmt]

\* AppConfig.set_default_file_format(file_format)
set_default_file_format(cfg, file_format) == [cfg EXCEPT !.file_format = file_format]

\* AppConfig.get_default_filename()
get_default_filename(cfg) == cfg.default_filename

\* AppConfig.get_filename()
get_filename(cfg) ==
    IF cfg.filename = None THEN get_default_filename(cfg) ELSE cfg.filename

\* AppConfig.set_filename(filename)
set_filename(cfg, filename) == [cfg EXCEPT !.filename = filename]

\* AppConfig.set_default_filename(filename)
set_default_filename(cfg, filename) == [cfg EXCEPT !.default_filename = filename]

\* AppConfig.get_metadata_fields()
get_metadata_fields(cfg) == cfg.last_used_metadata

\* AppConfig.set_metadata_fields(metadata)
set_metadata_fields(cfg, metadata) == [cfg EXCEPT !.last_used_metadata = metadata]

\* AppConfig.get_filename_with_suffix(filename): [config, ret]; the dot is
\* added to the stored file format as in get_default_file_format
get_filename_with_suffix(cfg, filename) ==
    LET fmt == IF \A i \in 1..Len(cfg.file_format) : cfg.file_format[i] # "."
               THEN <<".">> \o cfg.file_format
               ELSE cfg.file_format
        n == Len(filename) - Len(fmt)
    IN  [config |-> [cfg EXCEPT !.file_format = fmt],
         ret |-> IF n >= 0 /\ SubSeq(filename, n + 1, Len(filename)) = fmt
                 THEN filename ELSE filename \o fmt]

(***************************************************************************)
(* Logger (logger.py).  A callback is the record of what it does when it   *)
(* is called: return, raise an exception, or first register or remove a    *)
(* callback of the logger.                                                 *)
(***************************************************************************)
DEBUG == 10
INFO == 20
WARNING == 30
ERROR == 40
LogLevel == {DEBUG, INFO, WARNING, ERROR}

LevelName(level) ==
    CASE level = DEBUG -> "DEBUG" [] level = INFO -> "INFO"
      [] level = WARNING -> "WARNING" [] level = ERROR -> "ERROR"

\* Logger.__init__(min_level)
NewLogger == [entries |-> <<>>, min_level |-> DEBUG, callbacks |-> <<>>]

\* LogEntry(timestamp, level, source, message), without the timestamp
LogEntry(level, source, message) ==
    [level |-> LevelName(level), source |-> source, message |-> message]

\* Logger.clear(): self._entries.clear()
clear(lg) == [lg EXCEPT !.entries = <<>>]

\* Logger.add_callback(callback)
add_callback(lg, callback) == [lg EXCEPT !.callbacks = Append(@, callback)]

RECURSIVE list_remove(_, _)
\* list.remove(x): the first element equal to x is taken out
list_remove(list, x) ==
    IF list = <<>> THEN <<>>
    ELSE IF Head(list) = x THEN Tail(list)
    ELSE <<Head(list)>> \o list_remove(Tail(list), x)

\* Logger.remove_callback(callback)
remove_callback(lg, callback) ==
    IF \E i \in 1..Len(lg.callbacks) : lg.callbacks[i] = callback
    THEN [lg EXCEPT !.callbacks = list_remove(@, callback)]
    ELSE lg

\* The listeners that act on the logger they are registered with: listener
\* 3 removes itself, listener 4 removes listener 1, listener 5 registers
\* listener 1; listeners 1 and 2 only return or raise.
Listeners ==
    {[id |-> 1, raises |-> "", does |-> "return", target |-> 0],
     [id |-> 2, raises |-> "ValueError", does |-> "return", target |-> 0],
     [id |-> 3, raises |-> "", does |-> "remove_callback", target |-> 3],
     [id |-> 4, raises |-> "", does |-> "remove_callback", target |-> 1],
     [id |-> 5, raises |-> "", does |-> "add_callback", target |-> 1]}

Listener(id) == CHOOSE callback \in Listeners : callback.id = id

\* callback(entry): the logger after the call of the callback
CallListener(lg, callback) ==
    CASE callback.does = "remove_callback" -> remove_callback(lg, Listener(callback.target))
      [] callback.does = "add_callback" -> add_callback(lg, Listener(callback.target))
      [] OTHER -> lg

RECURSIVE Notify(_, _, _)
\* the for loop of _log over self._callbacks, from the position i of the
\* list iterator: the list is read anew at every step, every callback found
\* is called, what it raises is dropped: [logger, calls, exc]
Notify(lg, i, entry) ==
    IF i > Len(lg.callbacks) THEN [logger |-> lg, calls |-> <<>>, exc |-> ""]
    ELSE [Notify(CallListener(lg, lg.callbacks[i]), i + 1, entry) EXCEPT
            !.calls = <<[callback |-> lg.callbacks[i], entry |-> entry]>> \o @]

RECURSIVE Notify_Unguarded(_, _, _)
\* A slip in _log: the first exception of a callback ends the loop.
Notify_Unguarded(lg, i, entry) ==
    IF i > Len(lg.callbacks) THEN [logger |-> lg, calls |-> <<>>, exc |-> ""]
    ELSE IF lg.callbacks[i].raises # ""
    THEN [logger |-> CallListener(lg, lg.callbacks[i]),
          calls |-> <<[callback |-> lg.callbacks[i], entry |-> entry]>>,
          exc |-> lg.callbacks[i].raises]
    ELSE [Notify_Unguarded(CallListener(lg, lg.callbacks[i]), i + 1, entry) EXCEPT
            !.calls = <<[callback |-> lg.callbacks[i], entry |-> entry]>> \o @]

RECURSIVE Notify_Snapshot(_, _, _, _)
\* A for loop over a copy of the list taken when the loop starts.
Notify_Snapshot(lg, callbacks, i, entry) ==
    IF i > Len(callbacks) THEN [logger |-> lg, calls |-> <<>>, exc |-> ""]
    ELSE [Notify_Snapshot(CallListener(lg, callbacks[i]), callbacks, i + 1, entry) EXCEPT
            !.calls = <<[callback |-> callbacks[i], entry |-> entry]>> \o @]

\* The entry of a log call appended to the entries of the logger lg.
Logged(lg, level, source, message) ==
    [lg EXCEPT !.entries = Append(@, LogEntry(level, source, message))]

\* A slip in _log: the callbacks are called without the try block.
log_Unguarded(lg, level, source, message) ==
    IF level < lg.min_level
    THEN [logger |-> lg, calls |-> <<>>, exc |-> ""]
    ELSE Notify_Unguarded(Logged(lg, level, source, message), 1,
                          LogEntry(level, source, message))

\* A variant of _log that iterates over a copy of the list of callbacks.
log_Snapshot(lg, level, source, message) ==
    IF level < lg.min_level
    THEN [logger |-> lg, calls |-> <<>>, exc |-> ""]
    ELSE Notify_Snapshot(Logged(lg, level, source, message), lg.callbacks, 1,
                         LogEntry(level, source, message))

\* Logger._log(level, source, message): [logger, calls, exc]
log(lg, level, source, message) ==
    IF level < lg.min_level
    THEN [logger |-> lg, calls |-> <<>>, exc |-> ""]
    ELSE Notify(Logged(lg, level, source, message), 1,
                LogEntry(level, source, message))

(***************************************************************************)
(* Discovery (pyvisa_utils.py).                                            *)
(***************************************************************************)
Truthy(s) == s # None /\ s # <<>>

NoIdentity ==
    [manufacturer |-> None, model_num |-> None, serial_num |-> None,
     software_rev |-> None, other |-> None]

\* A value that is not a str: None, or a bytes object (which is truthy).
Bytes == <<"bytes">>
isinstance_str(x) == x \notin {None, Bytes}

\* A slip in scpi_id_parser: the four parts are stored untrimmed.
scpi_id_parser_NoStrip(id_string) ==
    IF ~(Truthy(id_string) /\ isinstance_str(id_string)) THEN NoIdentity
    ELSE LET id_parts == split(id_string, ",")
             r == IF Len(id_parts) = 4
                  THEN [NoIdentity EXCEPT
                          !.manufacturer = id_parts[1], !.model_num = id_parts[2],
                          !.serial_num = id_parts[3], !.software_rev = id_parts[4]]
                  ELSE NoIdentity
         IN  IF Len(id_parts) > 4
             THEN [r EXCEPT !.other = SubSeq(id_parts, 5, Len(id_parts))]
             ELSE r

\* A slip in scpi_id_parser: the first four parts are taken whenever
\* there are at least four.
scpi_id_parser_AtLeastFour(id_string) ==
    IF ~(Truthy(id_string) /\ isinstance_str(id_string)) THEN NoIdentity
    ELSE LET id_parts == split(id_string, ",")
             r == IF Len(id_parts) >= 4
                  THEN [NoIdentity EXCEPT
                          !.manufacturer = strip(id_parts[1], Whitespace),
                          !.model_num = strip(id_parts[2], Whitespace),
                          !.serial_num = strip(id_parts[3], Whitespace),
                          !.software_rev = strip(id_parts[4], Whitespace)]
                  ELSE NoIdentity
         IN  IF Len(id_parts) > 4
             THEN [r EXCEPT !.other = SubSeq(id_parts, 5, Len(id_parts))]
             ELSE r

\* scpi_id_parser; other is None when the result has no key "other"
scpi_id_parser(id_string) ==
    IF ~(Truthy(id_string) /\ isinstance_str(id_string)) THEN NoIdentity
    ELSE LET id_parts == split(id_string, ",")
             r == IF Len(id_parts) = 4
                  THEN [NoIdentity EXCEPT
                          !.manufacturer = strip(id_parts[1], Whitespace),
                          !.model_num = strip(id_parts[2], Whitespace),
                          !.serial_num = strip(id_parts[3], Whitespace),
                          !.software_rev = strip(id_parts[4], Whitespace)]
                  ELSE NoIdentity
         IN  IF Len(id_parts) > 4
             THEN [r EXCEPT !.other = SubSeq(id_parts, 5, Len(id_parts))]
             ELSE r

\* The exception classes a probe can raise, and the two the code catches.
ErrPyvisa == "pyvisa.Error"
ErrForeign == "Exception"
IsPyvisaError(e) == e \in {ErrVisa, ErrPyvisa}
IsVisaIOError(e) == e = ErrVisa

\* A slip in Probe: an address whose open raises VisaIOError is skipped,
\* no record is appended for it.
Probe_SkipsUnreachable(st, n, instr, p) ==
    LET info == [n |-> n, addr |-> instr, id |-> <<"Not known">>] @@ NoIdentity
        k == Len(st.sess) + 1
        opened == [st EXCEPT !.sess = Append(@, [addr |-> instr, closes |-> 0])]
        idn == strip(p.idn, Whitespace)
        queried == IF p.query = ""
                   THEN [[info EXCEPT !.id = idn] EXCEPT
                           !.manufacturer = scpi_id_parser(idn).manufacturer,
                           !.model_num = scpi_id_parser(idn).model_num,
                           !.serial_num = scpi_id_parser(idn).serial_num,
                           !.software_rev = scpi_id_parser(idn).software_rev,
                           !.other = scpi_id_parser(idn).other]
                   ELSE info
        closed == [opened EXCEPT !.sess[k].closes = @ + 1]
    IN  IF p.open # ""
        THEN IF IsVisaIOError(p.open)
             THEN st
             ELSE [st EXCEPT !.exc = p.open]
        ELSE IF p.query = "" \/ IsPyvisaError(p.query)
             THEN [closed EXCEPT !.found = Append(@, queried)]
             ELSE [closed EXCEPT !.exc = p.query]

\* A slip in Probe: the session is closed after a successful query only,
\* not in a finally clause.
Probe_CloseOnSuccessOnly(st, n, instr, p) ==
    LET info == [n |-> n, addr |-> instr, id |-> <<"Not known">>] @@ NoIdentity
        k == Len(st.sess) + 1
        opened == [st EXCEPT !.sess = Append(@, [addr |-> instr, closes |-> 0])]
        closed == [opened EXCEPT !.sess[k].closes = @ + 1]
    IN  IF p.open # ""
        THEN IF IsVisaIOError(p.open)
             THEN [st EXCEPT !.found = Append(@, info)]
             ELSE [st EXCEPT !.exc = p.open]
        ELSE IF p.query = ""
             THEN [closed EXCEPT !.found = Append(@, info)]
             ELSE IF IsPyvisaError(p.query)
             THEN [opened EXCEPT !.found = Append(@, info)]
             ELSE [opened EXCEPT !.exc = p.query]

\* The body of the for loop of find_instruments for address instr at index
\* n; p says how the transport answers: p.open and p.query are "" or the
\* exception raised, p.idn the answer to *idn?.
Probe(st, n, instr, p) ==
    LET info == [n |-> n, addr |-> instr, id |-> <<"Not known">>] @@ NoIdentity
        k == Len(st.sess) + 1
        opened == [st EXCEPT !.sess = Append(@, [addr |-> instr, closes |-> 0])]
        idn == strip(p.idn, Whitespace)
        queried == IF p.query = ""
                   THEN [[info EXCEPT !.id = idn] EXCEPT
                           !.manufacturer = scpi_id_parser(idn).manufacturer,
                           !.model_num = scpi_id_parser(idn).model_num,
                           !.serial_num = scpi_id_parser(idn).serial_num,
                           !.software_rev = scpi_id_parser(idn).software_rev,
                           !.other = scpi_id_parser(idn).other]
                   ELSE info
        closed == [opened EXCEPT !.sess[k].closes = @ + 1]
    IN  IF p.open # ""
        THEN IF IsVisaIOError(p.open)
             THEN [st EXCEPT !.found = Append(@, info)]
             ELSE [st EXCEPT !.exc = p.open]
        ELSE IF p.query = "" \/ IsPyvisaError(p.query)
             THEN [closed EXCEPT !.found = Append(@, queried)]
             ELSE [closed EXCEPT !.exc = p.query]

RECURSIVE ProbeAll(_, _, _)
\* the for loop of find_instruments from index n (0-based) on
ProbeAll(st, instrs, n) ==
    IF n >= Len(instrs) \/ st.exc # "" THEN st
    ELSE ProbeAll(Probe(st, n, instrs[n + 1].addr, instrs[n + 1]), instrs, n + 1)

\* find_instruments: instrs is what list_resources returns, with the
\* answers of each address; list_fails is list_resources raising.
find_instruments(instrs, list_fails) ==
    LET st == [found |-> <<>>, sess |-> <<>>, exc |-> "", rm_closed |-> FALSE]
        r == IF list_fails THEN [st EXCEPT !.exc = ErrVisa] ELSE ProbeAll(st, instrs, 0)
    IN  [r EXCEPT !.rm_closed = TRUE]

\* needle in s
Contains(s, needle) ==
    \E i \in 0..(Len(s) - Len(needle)) : SubSeq(s, i + 1, i + Len(needle)) = needle

(***************************************************************************)
(* The legacy ScopeController (scope_controller.py).  sess holds every     *)
(* session the controller opened, device the index of the one it keeps     *)
(* (0 for None).                                                           *)
(***************************************************************************)
\* ScopeController.__init__
NewController == [device |-> 0, device_id |-> None, sess |-> <<>>]

\* The body of the for loop of scan_for_devices for one resource; p says
\* how the transport answers, as in Probe.  st.done is the return from
\* inside the loop.
ScanResource(st, p) ==
    LET k == Len(st.ctl.sess) + 1
        opened == [st EXCEPT !.ctl.sess = Append(@, [addr |-> p.addr, closes |-> 0]),
                             !.ev = Append(@, [op |-> "open", h |-> k])]
        idn == strip(p.idn, Whitespace)
    IN  IF p.open # "" THEN st
        ELSE IF p.query # "" THEN opened
        ELSE IF Contains(idn, <<"TEKTRONIX">>) /\ Contains(idn, <<"MSO5">>)
        THEN [opened EXCEPT !.ctl.device = k, !.ctl.device_id = idn,
                            !.ret = idn, !.done = TRUE]
        ELSE [opened EXCEPT !.ctl.sess[k].closes = @ + 1,
                            !.ev = Append(@, [op |-> "close", h |-> k])]

RECURSIVE ScanResources(_, _)
\* the for loop of scan_for_devices over the resources left
ScanResources(st, resources) ==
    IF resources = <<>> \/ st.done THEN st
    ELSE ScanResources(ScanResource(st, Head(resources)), Tail(resources))

\* scan_for_devices from `if self.device:` on
ScanClose(st) ==
    IF st.ctl.device # 0
    THEN [st EXCEPT !.ctl.sess[st.ctl.device].closes = @ + 1,
                    !.ctl.device = 0, !.ctl.device_id = None,
                    !.ev = Append(@, [op |-> "close", h |-> st.ctl.device])]
    ELSE st

\* ScopeController.scan_for_devices: resources is what list_resources
\* returns, with the answers of each address; list_fails is list_resources
\* raising.
scan_for_devices(ctl, resources, list_fails) ==
    LET st == [ctl |-> ctl, ev |-> <<>>, ret |-> None, exc |-> "", done |-> FALSE]
    IN  IF list_fails THEN [st EXCEPT !.exc = ErrVisa]
        ELSE ScanResources(ScanClose(st), resources)

(***************************************************************************)
(* SimpleScope (simple_scope.py).  An orchestrator state o is the record   *)
(* of the object's fields; an operation returns the new fields together    *)
(* with the transport context it left (c) and its result (ret, exc).       *)
(***************************************************************************)
Self ==
    [scope |-> scope, scope_addr |-> scope_addr,
     selected_scope_driver |-> selected_scope_driver,
     instrument_list |-> instrument_list, device_id |-> device_id,
     drivers |-> drivers, disk |-> disk, sidecar |-> sidecar,
     waveform |-> waveform, config |-> config, recent |-> recent]

Result(o, c, ret, exc) == [o |-> o, c |-> c, ret |-> ret, exc |-> exc]

UpperChar(ch) ==
    CASE ch = "tektronix" -> "TEKTRONIX" [] ch = "mso5" -> "MSO5"
      [] ch = "lecroy" -> "LECROY" [] ch = "wavesurfer" -> "WAVESURFER"
      [] OTHER -> ch

\* str.upper()
upper(s) == [i \in 1..Len(s) |-> UpperChar(s[i])]

RECURSIVE DeviceIdFor(_, _, _)
\* the for loop of setup_scope that looks the address up in instrument_list
DeviceIdFor(list, addr, default) ==
    IF list = <<>> THEN default
    ELSE IF Head(list).addr = addr
    THEN IF Truthy(Head(list).model_num) /\ Truthy(Head(list).serial_num)
         THEN <<"model (SN: serial)", Head(list).model_num, Head(list).serial_num>>
         ELSE default
    ELSE DeviceIdFor(Tail(list), addr, default)

\* SimpleScope.setup_scope(address, driver)
setup_scope(o, address, driver, opens, fails) ==
    LET sel == IF driver # NoDriverClass THEN driver ELSE o.selected_scope_driver
        o1 == [o EXCEPT !.selected_scope_driver = sel]
        made == IF sel = ScopeDriverClass
                THEN ScopeDriver_init(Ctx(NoScope, opens, fails), address)
                ELSE Tektronix_init(Ctx(NoScope, opens, fails), address)
        o2 == [o1 EXCEPT !.scope_addr = address, !.scope = made.d,
                         !.drivers = @ + 1]
        conn == connect(made, NoAddr)
        o3 == [o2 EXCEPT !.scope = conn.d]
    IN  IF sel = NoDriverClass
        THEN Result(o1, Ctx(o.scope, opens, fails), FALSE, "")
        ELSE IF conn.exc # ""
        THEN Result(o3, [conn EXCEPT !.exc = ""], FALSE, "")
        ELSE IF conn.ret
        THEN Result([o3 EXCEPT !.device_id =
                        DeviceIdFor(o.instrument_list, address, <<"addr", address>>)],
                    conn, TRUE, "")
        ELSE Result(o3, conn, FALSE, "")

RECURSIVE auto_setup_scope_from(_, _, _, _)
\* the for loop of SimpleScope.auto_setup_scope over the rest of the list
auto_setup_scope_from(o, list, opens, fails) ==
    IF list = <<>> THEN Result(o, Ctx(o.scope, opens, fails), FALSE, "")
    ELSE LET instr == Head(list)
             manufacturer == instr.manufacturer
             model_num == instr.model_num
         IN  IF Truthy(manufacturer) /\ Truthy(model_num)
             THEN IF Contains(manufacturer, <<"TEKTRONIX">>)
                     /\ Contains(model_num, <<"MSO5">>)
                  THEN setup_scope([o EXCEPT !.device_id = <<"instr", instr>>],
                                   instr.addr, TektronixScopeDriver, opens, fails)
                  ELSE IF Contains(upper(manufacturer), <<"LECROY">>)
                          /\ Contains(upper(model_num), <<"WAVESURFER">>)
                  THEN Result(o, Ctx(o.scope, opens, fails), FALSE, "")
                  ELSE auto_setup_scope_from(o, Tail(list), opens, fails)
             ELSE auto_setup_scope_from(o, Tail(list), opens, fails)

\* SimpleScope.auto_setup_scope
auto_setup_scope(o, opens, fails) ==
    auto_setup_scope_from(o, o.instrument_list, opens, fails)

\* SimpleScope.disconnect
SimpleScope_disconnect(o) ==
    IF o.scope # NoScope
    THEN LET c == disconnect(Ctx(o.scope, <<>>, {}))
         IN  Result([o EXCEPT !.scope = NoScope, !.scope_addr = NoAddr], c, TRUE, "")
    ELSE Result(o, Ctx(o.scope, <<>>, {}), FALSE, "")

\* SimpleScope.is_connected
SimpleScope_is_connected(o) == o.scope # NoScope /\ is_connected(o.scope)

\* save_dir=None: the argument is left out
NoDir == [type |-> "None", name |-> ""]

\* open(file_path, "wb") and file.write(data) on a destination holding d
\* (None: no file; <<>>: an empty file): how is "ok", or the call that
\* raises OSError
WriteFile(d, data, how) ==
    CASE how = "open" -> [disk |-> d, exc |-> ErrOS]
      [] how = "write" -> [disk |-> <<>>, exc |-> ErrOS]
      [] OTHER -> [disk |-> data, exc |-> ""]

\* SimpleScope.save_file
save_file(o, file_data, how) ==
    [o EXCEPT !.disk = WriteFile(o.disk, file_data, how).disk]

\* SimpleScope.capture from the call of save_file on, shot being the
\* context capture_screenshot returned in
CaptureSave(o, shot, how) ==
    IF WriteFile(o.disk, shot.ret, how).exc # ""
    THEN Result(save_file(o, shot.ret, how), shot, None, ErrOS)
    ELSE Result(save_file(o, shot.ret, how), shot, shot.ret, "")

\* SimpleScope.capture from the call of capture_screenshot on
CaptureShot(o, shot, how) ==
    IF shot.exc # "" THEN Result(o, shot, None, shot.exc)
    ELSE CaptureSave(o, shot, how)

\* SimpleScope.capture up to the call of capture_screenshot: the exception
\* raised there, "" for none.  named holds the arguments filename and
\* suffix (None: left out) and mkdir, "ok" or "fails": whether the
\* directory can be made.  AppConfig has neither the attribute
\* default_filename nor formatted_file_format.
CapturePrepare(o, save_dir, named) ==
    IF o.scope = NoScope THEN ErrNoScope
    ELSE IF save_dir = NoDir /\ get_save_directory(o.config, named.mkdir).exc # ""
         THEN get_save_directory(o.config, named.mkdir).exc
    ELSE IF named.filename = None THEN ErrAttribute
    ELSE IF named.suffix = None THEN ErrAttribute
    ELSE IF named.mkdir # "ok" THEN ErrOS
    ELSE ""

\* self.scope.capture_screenshot(bg_color, save_waveform) on the driver
\* held, of the class SimpleScope selected
CaptureScreenshot(o, fails) ==
    IF o.selected_scope_driver = ScopeDriverClass
    THEN ScopeDriver_capture_screenshot(Ctx(o.scope, <<>>, fails), <<"white", "False">>)
    ELSE capture_screenshot(Ctx(o.scope, <<>>, fails))

\* SimpleScope.capture, up to the image file
capture(o, save_dir, named, fails, how) ==
    IF CapturePrepare(o, save_dir, named) # ""
    THEN Result(o, Ctx(o.scope, <<>>, fails), None, CapturePrepare(o, save_dir, named))
    ELSE CaptureShot(o, CaptureScreenshot(o, fails), how)

\* What _save_metadata writes, line by line.
MetadataText(o, metadata) ==
    <<"Image file", "Capture time">>
    \o (IF o.device_id # None THEN <<"Device">> ELSE <<>>)
    \o <<"Custom Metadata:">> \o metadata

\* the outcome of capture once _save_metadata has written w
MetadataSaved(r, w) ==
    IF w.exc # "" THEN Result([r.o EXCEPT !.sidecar = w.disk], r.c, None, w.exc)
    ELSE Result([r.o EXCEPT !.sidecar = w.disk], r.c, r.ret, "")

\* `self.config.last_used_metadata = metadata`, s being the outcome of
\* _save_metadata: an attribute of the AppConfig object, not a key of its
\* config dict
CaptureLastUsed(s, metadata) ==
    IF s.exc # "" THEN s
    ELSE [s EXCEPT !.o.config.attr_last_used_metadata = metadata]

\* A slip in CaptureMetadata: when the metadata cannot be written the
\* image file saved before is removed.
CaptureMetadata_RetractsImage(r, metadata, how) ==
    IF r.exc # "" \/ ~Truthy(metadata) THEN r
    ELSE IF how # "ok"
    THEN Result([r.o EXCEPT !.disk = None], r.c, None, ErrOS)
    ELSE MetadataSaved(r, WriteFile(r.o.sidecar, MetadataText(r.o, metadata), how))

\* SimpleScope.capture from `if metadata:` on, r being the outcome up to
\* the image file and how the outcome of writing the metadata file
CaptureMetadata(r, metadata, how) ==
    IF r.exc # "" \/ ~Truthy(metadata) THEN r
    ELSE CaptureLastUsed(
            MetadataSaved(r, WriteFile(r.o.sidecar, MetadataText(r.o, metadata), how)),
            metadata)

\* SimpleScope.capture(metadata=metadata): how is the outcome of writing
\* the image file, meta_how of writing the metadata file
capture_with_metadata(o, save_dir, named, fails, how, metadata, meta_how) ==
    CaptureMetadata(capture(o, save_dir, named, fails, how), metadata, meta_how)

\* SimpleScope.recent as __init__ leaves it
NoRecent == [save_dir |-> NoDir, screenshot_data |-> None, metadata |-> None]

\* the directory capture works in once it has been made: `if save_dir is
\* None: save_dir = self.config.get_save_directory()`
CaptureDirectory(o, save_dir) ==
    IF save_dir = NoDir THEN get_save_directory(o.config, "ok").ret ELSE save_dir

\* A slip in CaptureConfig: the directory is not handed to the
\* configuration.
CaptureConfig_KeepsDirectory(r, dir) == r @@ [dir |-> dir]

\* SimpleScope.capture from `self.config.set_save_directory(save_dir)`
\* on, r being the outcome up to the metadata file; dir is the directory
\* the files were written to
CaptureConfig(r, dir) ==
    IF r.exc # "" THEN r @@ [dir |-> dir]
    ELSE [r EXCEPT !.o.config = set_save_directory(@, dir)] @@ [dir |-> dir]

\* A slip in CaptureRecent: the record of the capture is written whether
\* the capture succeeded or not.
CaptureRecent_Always(r, metadata) ==
    [r EXCEPT !.o.recent = [save_dir |-> r.dir, screenshot_data |-> r.ret,
                            metadata |-> metadata]]

\* SimpleScope.capture from `self.recent = dict(...)` on, r being the
\* outcome up to set_save_directory
CaptureRecent(r, metadata) ==
    IF r.exc # "" THEN r
    ELSE [r EXCEPT !.o.recent = [save_dir |-> r.dir, screenshot_data |-> r.ret,
                                 metadata |-> metadata]]

\* SimpleScope.capture(save_dir, filename, suffix, metadata=metadata)
capture_into(o, save_dir, named, fails, how, metadata, meta_how) ==
    CaptureRecent(
        CaptureConfig(capture_with_metadata(o, save_dir, named, fails, how,
                                            metadata, meta_how),
                      CaptureDirectory(o, save_dir)),
        metadata)

\* TektronixScopeDriver.save_screenshot from the open of the file on
SaveWrite(o, shot, w) ==
    IF w.exc # "" THEN Result([o EXCEPT !.disk = w.disk], shot, None, w.exc)
    ELSE Result([o EXCEPT !.disk = w.disk], shot, <<"file_path">>, "")

\* A slip in save_screenshot: the destination is opened for writing
\* before the capture, so that a failed capture leaves it empty.
SaveShot_OpenFirst(o, shot, how) ==
    IF shot.exc # "" THEN Result([o EXCEPT !.disk = <<>>], shot, None, shot.exc)
    ELSE SaveWrite(o, shot, WriteFile(o.disk, shot.ret, how))

\* the try block of TektronixScopeDriver.save_screenshot
SaveShot(o, shot, how) ==
    IF shot.exc # "" THEN Result(o, shot, None, shot.exc)
    ELSE SaveWrite(o, shot, WriteFile(o.disk, shot.ret, how))

\* TektronixScopeDriver.save_screenshot: the adaptor is checked, the
\* directory made (mkdir: "ok" or "fails"), then the try block is entered
save_screenshot(o, mkdir, fails, how) ==
    IF o.scope.adaptor = 0
    THEN Result(o, Ctx(o.scope, <<>>, fails), None, ErrNoScope)
    ELSE IF mkdir # "ok"
    THEN Result(o, Ctx(o.scope, <<>>, fails), None, ErrOS)
    ELSE SaveShot(o, get_screenshot_brian(Ctx(o.scope, <<>>, fails)), how)

\* The commands of the waveform export.
DataSource == Cmd("DATA:SOURCE CH1", <<>>)
DataEncdg == Cmd("DATA:ENCDG ASCII", <<>>)
DataStart == Cmd("DATA:START 1", <<>>)
DataStop == Cmd("DATA:STOP 10000", <<>>)
CurveQuery == Cmd("CURVE?", <<>>)
XincrQuery == Cmd("WFMOUTPRE:XINCR?", <<>>)
YmultQuery == Cmd("WFMOUTPRE:YMULT?", <<>>)
YoffQuery == Cmd("WFMOUTPRE:YOFF?", <<>>)

ErrFloat == "ValueError: could not convert string to float"
WaveHeader == "Time(s),Voltage(V)"

\* float(s) on the answers the model draws, which hold digits, a sign,
\* whitespace and letters: [ok, v]; not ok is ValueError
float(s) == int(s)

RECURSIVE WaveLines(_, _, _, _, _)
\* the for loop over values from index i on: the lines written up to the
\* first value float() refuses, and whether there was one
WaveLines(values, i, x_inc, y_mult, y_off) ==
    IF i >= Len(values) THEN [lines |-> <<>>, exc |-> ""]
    ELSE IF ~float(values[i + 1]).ok THEN [lines |-> <<>>, exc |-> ErrFloat]
    ELSE [WaveLines(values, i + 1, x_inc, y_mult, y_off) EXCEPT
            !.lines = << <<i * x_inc, float(values[i + 1]).v * y_mult - y_off>> >> \o @]

\* the outcome of _save_waveform_data: the except clause swallows what it
\* caught (caught), the file is left as wave
WaveResult(o, c, wave, caught) ==
    Result([o EXCEPT !.scope = c.d, !.waveform = wave], [c EXCEPT !.exc = ""], None, "")
    @@ [caught |-> caught]

\* _save_waveform_data from open(file_path, 'w') on: how is the outcome
\* of the file calls, w what the for loop writes
WaveWrite(o, c, how, w) ==
    CASE how = "open" -> WaveResult(o, c, o.waveform, ErrOS)
      [] how = "write" -> WaveResult(o, c, <<>>, ErrOS)
      [] OTHER -> WaveResult(o, c, <<WaveHeader>> \o w.lines, w.exc)

\* _save_waveform_data after the queries: ans holds the answers to CURVE?
\* and to the three scaling queries
WaveFormat(o, c, ans, how, x_inc, y_mult, y_off) ==
    IF ~x_inc.ok \/ ~y_mult.ok \/ ~y_off.ok
    THEN WaveResult(o, c, o.waveform, ErrFloat)
    ELSE Apply(LAMBDA w : WaveWrite(o, c, how, w),
               WaveLines(split(ans.data, ","), 0, x_inc.v, y_mult.v, y_off.v))

\* the transport calls of _save_waveform_data, in order; float() of an
\* answer is taken before the next query is sent
WaveCalls(c, ans) ==
    LET curve == Then(Then(Then(Then(write(c, DataSource), "write", DataEncdg),
                                "write", DataStart), "write", DataStop),
                      "query", CurveQuery)
        x == Then(curve, "query", XincrQuery)
        ym == IF float(ans.x_inc).ok THEN Then(x, "query", YmultQuery) ELSE x
        yo == IF float(ans.y_mult).ok THEN Then(ym, "query", YoffQuery) ELSE ym
    IN  IF float(ans.x_inc).ok THEN yo ELSE x

\* TektronixScopeDriver._save_waveform_data(file_path)
save_waveform_data(o, fails, ans, how) ==
    Apply(LAMBDA c : IF c.exc # "" THEN WaveResult(o, c, o.waveform, c.exc)
                     ELSE WaveFormat(o, c, ans, how, float(ans.x_inc),
                                     float(ans.y_mult), float(ans.y_off)),
          WaveCalls(Ctx(o.scope, <<>>, fails), ans))

(***************************************************************************)
(* The actions: one per operation a caller of SimpleScope can run, on the  *)
(* orchestrator or on the driver it holds (SimpleScope.scope).             *)
(***************************************************************************)
OpenScripts == {<<a, b>> : a \in BOOLEAN, b \in BOOLEAN}
FailSets == {f \in SUBSET (1..MaxIO) : Cardinality(f) <= 2}
WriteOutcomes == {"ok", "open", "write"}

\* The outcomes of Path.mkdir(parents=True, exist_ok=True): the directory
\* is there afterwards, or OSError.
MkdirOutcomes == {"ok", "fails"}

\* The answers *idn? can give; a word the code looks for is one character.
IdnTek == <<"TEKTRONIX", ",", "MSO5", "4", ",", " ", "C", "0", "1", ",", "1", ".", "2", "\n">>
IdnOther == <<"lecroy", ",", "X", ",", "7", ",", "1">>
IdnShort == <<"ACME", ",", "X">>
IdnLong == <<"TEKTRONIX", ",", "MSO5", "8", ",", "C", ",", "1", ",", "x", ",", "y">>
IdnLecroy == <<"lecroy", ",", "wavesurfer", " ", "3", ",", "7", ",", "1">>
IdnStrings == {IdnTek, IdnOther, IdnShort, IdnLong, IdnLecroy, <<>>}

Answers(addr, open, q, idn) == [addr |-> addr, open |-> open, query |-> q, idn |-> idn]

\* The buses scanned next to the session operations.
Buses ==
    { <<Answers("TCPIP0", "", ErrVisa, IdnOther), Answers("USB0", "", "", IdnTek)>>,
      <<Answers("TCPIP0", "", "", IdnOther)>> }

\* Every way one address can answer a probe.
ProbeAnswers(addr) ==
    {Answers(addr, e, "", <<>>) : e \in {ErrVisa, ErrPyvisa, ErrForeign}}
    \cup {Answers(addr, "", e, <<>>) : e \in {ErrVisa, ErrPyvisa, ErrForeign}}
    \cup {Answers(addr, "", "", idn) : idn \in IdnStrings}

BusAddresses == <<"USB0", "TCPIP0", "GPIB0", "ASRL1", "ASRL2">>

\* Every bus of at most MaxBus addresses.
AllBuses ==
    UNION {{b \in [1..n -> UNION {ProbeAnswers(BusAddresses[i]) : i \in 1..n}] :
                \A i \in 1..n : b[i].addr = BusAddresses[i]} : n \in 0..MaxBus}

\* The fields and the world after an operation whose outcome is r.
CommitFields(r) ==
    /\ scope' = r.o.scope
    /\ scope_addr' = r.o.scope_addr
    /\ selected_scope_driver' = r.o.selected_scope_driver
    /\ instrument_list' = r.o.instrument_list
    /\ device_id' = r.o.device_id
    /\ drivers' = r.o.drivers
    /\ disk' = r.o.disk
    /\ sidecar' = r.o.sidecar
    /\ waveform' = r.o.waveform
    /\ config' = r.o.config
    /\ UNCHANGED logger
    /\ recent' = r.o.recent
    /\ UNCHANGED controller
    /\ handles' = r.c.hs
    /\ errq' = r.c.errq
    /\ files' = r.c.files
    /\ UNCHANGED bus

\* The same; no operation of the model touches the GUI.
CommitState(r) == CommitFields(r) /\ UNCHANGED gui

\* The state after an operation whose outcome is r.
Commit(op, r) ==
    /\ CommitState(r)
    /\ last' = [op |-> op, ret |-> r.ret, exc |-> r.exc, ev |-> r.c.ev]

\* An operation on the driver object held in SimpleScope.scope.
OnDriver(op, c) ==
    Commit(op, Result([Self EXCEPT !.scope = c.d], c, c.ret, c.exc))

SetupScope ==
    /\ drivers < MaxDrivers
    /\ Len(handles) + 2 <= MaxHandles
    /\ \E address \in Addresses \cup {NoAddr},
          driver \in {NoDriverClass, TektronixScopeDriver},
          opens \in OpenScripts :
            Commit("setup_scope", setup_scope(Self, address, driver, opens, {}))

AutoSetupScope ==
    /\ drivers < MaxDrivers
    /\ Len(handles) + 2 <= MaxHandles
    /\ \E opens \in OpenScripts :
            Commit("auto_setup_scope", auto_setup_scope(Self, opens, {}))

Disconnect == Commit("disconnect", SimpleScope_disconnect(Self))

\* The arguments filename and suffix of a capture, given or left out, and
\* whether the directory of the capture can be made.
CaptureNames ==
    {[filename |-> f, suffix |-> x, mkdir |-> m] :
        f \in {None, <<"shot">>}, x \in {None, <<".", "png">>}, m \in {"ok", "fails"}}

\* The capture goes on to the transport only with both names given and the
\* directory made, and to the metadata file only with metadata given and
\* the image saved: what the transport and the local files do is drawn
\* from S when they are asked, and is default otherwise.
GivenNames == [filename |-> <<"shot">>, suffix |-> <<".", "png">>, mkdir |-> "ok"]
WhenGiven(named, S, default) == IF named = GivenNames THEN S ELSE {default}
WhenSaved(named, how, metadata, S, default) ==
    IF named = GivenNames /\ how = "ok" /\ metadata \notin {None, <<>>}
    THEN S ELSE {default}

Capture ==
    \E named \in CaptureNames :
        \E fails \in WhenGiven(named, FailSets, {}),
           how \in WhenGiven(named, WriteOutcomes, "ok") :
            Commit("capture", capture_into(Self, NoDir, named, fails, how, None, "ok"))

DriverConnect ==
    /\ scope # NoScope
    /\ Len(handles) + 2 <= MaxHandles
    /\ \E address \in Addresses \cup {NoAddr}, opens \in OpenScripts :
            OnDriver("connect", connect(Ctx(scope, opens, {}), address))

DriverSetAddress ==
    /\ scope # NoScope
    /\ Len(handles) + 1 <= MaxHandles
    /\ \E address \in Addresses \cup {NoAddr}, opens \in OpenScripts :
            OnDriver("address", address_setter(Ctx(scope, opens, {}), address))

DriverDisconnect ==
    /\ scope # NoScope
    /\ OnDriver("driver.disconnect", disconnect(Ctx(scope, <<>>, {})))

\* save_screenshot; the outcomes of the transport and of the image file
\* are drawn when the directory is made
DriverSaveScreenshot ==
    /\ scope # NoScope
    /\ \E mkdir \in MkdirOutcomes :
        \E fails \in (IF mkdir = "ok" THEN FailSets ELSE {{}}),
           how \in (IF mkdir = "ok" THEN WriteOutcomes ELSE {"ok"}) :
            Commit("save_screenshot", save_screenshot(Self, mkdir, fails, how))

DriverCaptureScreenshot ==
    /\ scope # NoScope
    /\ selected_scope_driver = TektronixScopeDriver
    /\ \E fails \in FailSets :
            OnDriver("capture_screenshot", capture_screenshot(Ctx(scope, <<>>, fails)))

DriverCheckErrors ==
    /\ scope # NoScope
    /\ \E fails \in FailSets :
            OnDriver("check_errors", check_errors(Ctx(scope, <<>>, fails)))

\* SimpleScope.scan_for_instruments; last.ev holds the transient sessions
\* find_instruments opened.
ScanForInstruments ==
    \E list_fails \in BOOLEAN :
        LET r == find_instruments(bus, list_fails)
        IN  /\ instrument_list' = IF r.exc = "" THEN r.found ELSE instrument_list
            /\ last' = [op |-> "scan_for_instruments", ret |-> r.found,
                        exc |-> r.exc, ev |-> r.sess, list_fails |-> list_fails,
                        rm_closed |-> r.rm_closed]
            /\ UNCHANGED <<scope, scope_addr, selected_scope_driver, device_id,
                           handles, drivers, errq, files, disk, sidecar, waveform, config, logger, recent, controller, gui, bus>>

\* ScopeController.scan_for_devices on the bus; last.ev holds the opens
\* and closes it made, in order.
ScanForDevices ==
    /\ Len(controller.sess) + Len(bus) <= MaxSessions
    /\ \E list_fails \in BOOLEAN :
        \E r \in {scan_for_devices(controller, bus, list_fails)} :
            /\ controller' = r.ctl
            /\ last' = [op |-> "scan_for_devices", ret |-> r.ret, exc |-> r.exc,
                        ev |-> r.ev, list_fails |-> list_fails]
            /\ UNCHANGED <<scope, scope_addr, selected_scope_driver, instrument_list,
                           device_id, handles, drivers, errq, files, disk, sidecar,
                           waveform, config, logger, recent, gui, bus>>

(***************************************************************************)
(* ScopeCaptureGUI (gui.py).  __init__ builds the tabs one after the       *)
(* other; _initialize_capture_tab reads self.scope.config.default_filename *)
(* (gui.py 106), an attribute AppConfig does not have, so the constructor  *)
(* raises AttributeError (or OSError before it, when get_save_directory    *)
(* cannot make the directory) ahead of `self.after(500,                    *)
(* self.scan_for_scope)`.  main() does not catch the exception: no window  *)
(* is built, no event loop runs, no scan is scheduled and no button can    *)
(* be pressed, so that scan_for_scope never runs.                          *)
(***************************************************************************)
\* ScopeCaptureGUI.__init__: the exception leaves no window and no timer
NewGui == [constructed |-> FALSE, timer |-> FALSE]

\* The metadata a caller passes to capture: none, an empty dict, one item.
Metadatas == {None, <<>>, <<"k: v">>}

\* The transport next to the local files: every call answers, or the
\* read_raw of the capture raises.
SaveFails == {{}, {4}}

\* SimpleScope.capture with metadata; last keeps how the two local files
\* answered (image, sidecar) and the metadata passed.
CaptureWithMetadata ==
    \E named \in CaptureNames :
      \E metadata \in WhenGiven(named, Metadatas, None),
         fails \in WhenGiven(named, SaveFails, {}),
         how \in WhenGiven(named, WriteOutcomes, "ok") :
       \E meta_how \in WhenSaved(named, how, metadata, WriteOutcomes, "ok") :
        \E r \in {capture_into(Self, NoDir, named, fails, how, metadata, meta_how)} :
            /\ CommitState(r)
            /\ last' = [op |-> "capture", ret |-> r.ret, exc |-> r.exc, ev |-> r.c.ev,
                        image |-> how, metadata |-> metadata, sidecar |-> meta_how]

\* What the instrument answers to CURVE? and to the scaling queries.
WaveAnswers ==
    [data : {<<"1", ",", "2">>, <<"4", ",", "x">>, <<>>},
     x_inc : {<<"2">>, <<"x">>},
     y_mult : {<<"3">>},
     y_off : {<<"1", "\n">>, <<"?">>}]

\* The transport during the export: every call answers, or one raises.
WaveFails == {{}} \cup {{k} : k \in 1..8}

\* TektronixScopeDriver._save_waveform_data on the driver held; last.caught
\* is what the except clause caught.
DriverSaveWaveform ==
    /\ scope # NoScope
    /\ \E fails \in WaveFails, ans \in WaveAnswers, how \in WriteOutcomes :
        \E r \in {save_waveform_data(Self, fails, ans, how)} :
            /\ CommitState(r)
            /\ last' = [op |-> "_save_waveform_data", ret |-> r.ret, exc |-> r.exc,
                        ev |-> r.c.ev, caught |-> r.caught]

\* The identification strings handed to scpi_id_parser: every string of at
\* most MaxIdLen characters over a letter, a blank and the comma, the
\* answers of the instruments, and two values that are not strings.
IdAlphabet == {"a", " ", ","}
IdInputs ==
    UNION {[1..k -> IdAlphabet] : k \in 0..MaxIdLen} \cup IdnStrings \cup {None, Bytes}

\* scpi_id_parser(id_string) called on its own; the function has no raise
\* and no call that raises on these values, so that last.exc stays empty.
ParseIdentity ==
    /\ \E id_string \in IdInputs :
        last' = [op |-> "scpi_id_parser", arg |-> id_string,
                 ret |-> scpi_id_parser(id_string), exc |-> "", ev |-> <<>>]
    /\ UNCHANGED <<scope, scope_addr, selected_scope_driver, instrument_list,
                   device_id, handles, drivers, errq, files, disk, sidecar,
                   waveform, config, logger, recent, controller, gui, bus>>

\* The directories a caller hands over, each as a str and as a Path.
DirNames == <<"d1", "d2", "d3", "d4", "d5", "d6", "d7", "d8">>
Dirs == {StrDir(DirNames[i]) : i \in 1..MaxDirs} \cup {PathDir(DirNames[i]) : i \in 1..MaxDirs}
FileFormats == {<<"png">>, <<".", "png">>, <<"bmp">>}

\* A method of AppConfig that leaves the configuration cfg and returns
\* ret or raises exc.
ConfigReturn(op, arg, cfg, ret, exc) ==
    /\ config' = cfg
    /\ last' = [op |-> op, arg |-> arg, ret |-> ret, exc |-> exc, ev |-> <<>>]
    /\ UNCHANGED <<scope, scope_addr, selected_scope_driver, instrument_list,
                   device_id, handles, drivers, errq, files, disk, sidecar,
                   waveform, logger, recent, controller, gui, bus>>

\* A method of AppConfig that leaves the configuration cfg and returns ret.
ConfigCall(op, arg, cfg, ret) == ConfigReturn(op, arg, cfg, ret, "")

SetSaveDirectory ==
    \E directory \in Dirs :
        ConfigCall("set_save_directory", directory,
                   set_save_directory(config, directory), None)

SetAutoIncrement ==
    \E enabled \in BOOLEAN :
        ConfigCall("set_auto_increment", enabled, set_auto_increment(config, enabled), None)

SetDatestamp ==
    \E enabled \in BOOLEAN :
        ConfigCall("set_datestamp", enabled, set_datestamp(config, enabled), None)

\* The values a caller stores under a key with update_config; the key
\* "save_waveforms" is no key of the configuration.
ConfigValues(key) ==
    CASE key \in {"auto_increment", "datestamp", "save_waveform", "save_waveforms"}
            -> BOOLEAN
      [] key = "file_format" -> FileFormats
      [] key = "save_directory" -> {DefaultSaveDirectory, "d1"}
      [] key = "recent_directories" -> {<<>>, <<"d1", "d1">>}
      [] key = "last_used_metadata" -> {<<>>, <<"k: v">>}
      [] key = "background_color" -> {<<"white">>, <<"black">>}
      [] key = "default_filename" -> {<<"capture">>, <<"shot">>}
      [] key = "filename" -> {None, <<"shot">>}

ConfigKeys ==
    {"save_directory", "default_filename", "filename", "file_format",
     "background_color", "save_waveform", "auto_increment", "datestamp",
     "last_used_metadata", "recent_directories", "save_waveforms"}

UpdateConfig ==
    \E key \in ConfigKeys :
        \E value \in ConfigValues(key) :
            \E r \in {update_config(config, key, value)} :
                ConfigCall("update_config", <<key, value>>, r.config, r.ret)

SetMetadataFields ==
    \E metadata \in {<<>>, <<"k: v">>} :
        ConfigCall("set_metadata_fields", metadata,
                   set_metadata_fields(config, metadata), None)

SetFilename ==
    \E filename \in {None, <<"shot">>} :
        ConfigCall("set_filename", filename, set_filename(config, filename), None)

SetDefaultFilename ==
    \E filename \in {<<"capture">>, <<"shot">>} :
        ConfigCall("set_default_filename", filename,
                   set_default_filename(config, filename), None)

\* The getters: they leave the configuration alone, and
\* get_save_directory raises when the directory cannot be made.
GetConfig ==
    \/ ConfigCall("get_filename", None, config, get_filename(config))
    \/ ConfigCall("get_default_filename", None, config, get_default_filename(config))
    \/ ConfigCall("get_metadata_fields", None, config, get_metadata_fields(config))
    \/ \E mkdir \in MkdirOutcomes :
          \E r \in {get_save_directory(config, mkdir)} :
            ConfigReturn("get_save_directory", None, config,
                         IF r.exc = "" THEN r.ret.name ELSE None, r.exc)

GetFilenameWithSuffix ==
    \E filename \in {<<>>, <<"shot">>, <<"shot", ".", "png">>} :
        \E r \in {get_filename_with_suffix(config, filename)} :
            ConfigCall("get_filename_with_suffix", filename, r.config, r.ret)

GetDefaultFileFormat ==
    ConfigCall("get_default_file_format", None, get_default_file_format(config).config,
               get_default_file_format(config).ret)

SetDefaultFileFormat ==
    \E file_format \in FileFormats :
        ConfigCall("set_default_file_format", file_format,
                   set_default_file_format(config, file_format), None)

\* The file names and suffixes handed to the functions of utils.py: every
\* string over a letter, the underscore, two digits and the dot, and the
\* names of the documentation.
NameAlphabet == {"c", "_", "0", "9", "."}
DocNames ==
    { <<"capture", "_", "0", "0", "5", ".", "png">>,
      <<"capture", "_", "9", "9", "9", ".", "png">>,
      <<"capture", ".", "png">> }
FileNames ==
    (UNION {[1..k -> NameAlphabet] : k \in 1..MaxNameLen} \cup DocNames)
    \ {<<".">>, <<".", ".">>}
Suffixes == UNION {[1..k -> {"c", "."}] : k \in 0..2} \cup {<<"png">>, <<".", "png">>}

\* filename_with_suffix on the arguments drawn; last.again is the function
\* applied to its own result, last.dotted the call with a dot put in front
\* of the suffix.
FilenameWithSuffix ==
    /\ last.op = "arguments"
    /\ \E r \in {filename_with_suffix(last.filename, last.suffix)} :
         last' = [op |-> "filename_with_suffix", filename |-> last.filename,
                  suffix |-> last.suffix, ret |-> r, exc |-> "", ev |-> <<>>,
                  again |-> filename_with_suffix(r, last.suffix),
                  dotted |-> filename_with_suffix(last.filename, <<".">> \o last.suffix)]
    /\ UNCHANGED <<scope, scope_addr, selected_scope_driver, instrument_list,
                   device_id, handles, drivers, errq, files, disk, sidecar,
                   waveform, config, logger, recent, controller, gui, bus>>

\* increment_filename on the file name drawn
IncrementFilename ==
    /\ last.op = "arguments"
    /\ last' = [op |-> "increment_filename", filename |-> last.filename,
                ret |-> increment_filename(last.filename), exc |-> "", ev |-> <<>>]
    /\ UNCHANGED <<scope, scope_addr, selected_scope_driver, instrument_list,
                   device_id, handles, drivers, errq, files, disk, sidecar,
                   waveform, config, logger, recent, controller, gui, bus>>

\* The positional arguments of a call of an optional method.
ArgLists ==
    { <<>>, <<"out">>, <<"out", "a">>, <<"white", "True">>,
      <<"out", "a", ".png", "white", "True", "None">>,
      <<"out", "a", ".png", "white", "False", "None", "extra">> }

\* SimpleScope.setup_scope(address, ScopeDriver): the base class as driver
SetupBaseScope ==
    /\ drivers < MaxDrivers
    /\ Len(handles) + 2 <= MaxHandles
    /\ \E address \in Addresses \cup {NoAddr}, opens \in OpenScripts :
            Commit("setup_scope", setup_scope(Self, address, ScopeDriverClass, opens, {}))

\* A call on the driver held that records its arguments.
OnDriverWith(op, args, c) ==
    /\ CommitState(Result([Self EXCEPT !.scope = c.d], c, c.ret, c.exc))
    /\ last' = [op |-> op, args |-> args, ret |-> c.ret, exc |-> c.exc, ev |-> c.ev]

\* capture_screenshot on a driver of the base class
BaseCaptureScreenshot ==
    /\ scope # NoScope
    /\ selected_scope_driver = ScopeDriverClass
    /\ \E args \in ArgLists :
            OnDriverWith("ScopeDriver.capture_screenshot", args,
                         ScopeDriver_capture_screenshot(Ctx(scope, <<>>, {}), args))

\* _save_waveform_data on a driver of the base class
BaseSaveWaveform ==
    /\ scope # NoScope
    /\ selected_scope_driver = ScopeDriverClass
    /\ \E args \in ArgLists :
            OnDriverWith("ScopeDriver._save_waveform_data", args,
                         ScopeDriver_save_waveform_data(Ctx(scope, <<>>, {}), args))

\* The listeners: a callback returns, or raises an exception of a class
\* derived from Exception, each time it is called.
Callbacks ==
    {[id |-> i, raises |-> r, does |-> "return", target |-> 0] :
        i \in 1..2, r \in {"", "ValueError"}}

\* A method of Logger that leaves the logger lg.
LoggerCall(op, arg, lg, calls, exc) ==
    /\ logger' = lg
    /\ last' = [op |-> op, arg |-> arg, ret |-> None, exc |-> exc, ev |-> calls]
    /\ UNCHANGED <<scope, scope_addr, selected_scope_driver, instrument_list,
                   device_id, handles, drivers, errq, files, disk, sidecar,
                   waveform, config, recent, controller, gui, bus>>

\* Logger.debug, info, warning and error: _log at that level
LogMessage ==
    /\ Len(logger.entries) < MaxEntries
    /\ Len(logger.callbacks) <= MaxCallbacks
    /\ \E level \in LogLevel :
        \E r \in {log(logger, level, "scope", "message")} :
            LoggerCall("_log", level, r.logger, r.calls, r.exc)

\* Logger.clear()
ClearLog ==
    LoggerCall("clear", None, clear(logger), <<>>, "")

AddCallback ==
    /\ Len(logger.callbacks) < MaxCallbacks
    /\ \E callback \in Callbacks :
            LoggerCall("add_callback", callback, add_callback(logger, callback), <<>>, "")

RemoveCallback ==
    \E callback \in Callbacks :
        LoggerCall("remove_callback", callback, remove_callback(logger, callback), <<>>, "")

\* add_callback and remove_callback with the listeners that act on the logger
AddListener ==
    /\ Len(logger.callbacks) < MaxCallbacks
    /\ \E callback \in Listeners :
            LoggerCall("add_callback", callback, add_callback(logger, callback), <<>>, "")

RemoveListener ==
    \E callback \in Listeners :
        LoggerCall("remove_callback", callback, remove_callback(logger, callback), <<>>, "")

\* the setter of Logger.min_level
SetMinLevel ==
    \E level \in LogLevel :
        LoggerCall("min_level", level, [logger EXCEPT !.min_level = level], <<>>, "")

\* The save_dir of a capture: left out, a str, a Path.
CaptureDirs == {NoDir, StrDir("d1"), PathDir("d2")}

\* SimpleScope.capture(save_dir, ...) with the transport answering; last
\* keeps the argument (save_dir) and the directory written to (dir).
CaptureInto ==
    \E save_dir \in CaptureDirs, named \in CaptureNames :
      \E metadata \in WhenGiven(named, {None, <<"k: v">>}, None),
         how \in WhenGiven(named, WriteOutcomes, "ok") :
       \E meta_how \in WhenSaved(named, how, metadata, WriteOutcomes, "ok") :
        \E r \in {capture_into(Self, save_dir, named, {}, how, metadata, meta_how)} :
            /\ CommitState(r)
            /\ last' = [op |-> "capture", ret |-> r.ret, exc |-> r.exc, ev |-> r.c.ev,
                        save_dir |-> save_dir, dir |-> r.dir]

\* The instrument queues an error of its own.
InstrumentError ==
    /\ Len(errq) < MaxPending
    /\ \E r \in PendingResponses : errq' = Append(errq, r)
    /\ last' = [op |-> "instrument", ret |-> None, exc |-> "", ev |-> <<>>]
    /\ UNCHANGED <<scope, scope_addr, selected_scope_driver, instrument_list,
                   device_id, handles, drivers, files, disk, sidecar, waveform, config, logger, recent, controller, gui, bus>>

\* SimpleScope.__init__, the instrument idle and no image file yet
Start ==
    /\ scope = NoScope
    /\ scope_addr = NoAddr
    /\ selected_scope_driver = NoDriverClass
    /\ instrument_list = <<>>
    /\ device_id = None
    /\ handles = <<>>
    /\ drivers = 0
    /\ errq = <<>>
    /\ files = {}
    /\ disk = None
    /\ sidecar = None
    /\ waveform = None
    /\ config = DefaultConfig
    /\ logger = NewLogger
    /\ recent = NoRecent
    /\ controller = NewController
    /\ gui = NewGui
    /\ last = [op |-> "init", ret |-> None, exc |-> "", ev |-> <<>>]

Init == Start /\ bus \in Buses

(***************************************************************************)
(* Spec: the sessions.  Any sequence of scans, setups, disconnects and     *)
(* captures on the orchestrator and of connects, address assignments and   *)
(* disconnects on the driver it holds.                                     *)
(***************************************************************************)
Next ==
    \/ ScanForInstruments
    \/ SetupScope
    \/ AutoSetupScope
    \/ Disconnect
    \/ DriverConnect
    \/ DriverSetAddress
    \/ DriverDisconnect

Spec == Init /\ [][Next]_vars

(***************************************************************************)
(* SpecCapture: the capture protocol.  One driver is set up, then captures *)
(* run against an instrument that queues errors of its own.                *)
(***************************************************************************)
SetupOnce ==
    /\ drivers = 0
    /\ \E address \in Addresses, opens \in OpenScripts, fails \in FailSets :
            Commit("setup_scope",
                   setup_scope(Self, address, TektronixScopeDriver, opens, fails))

NextCapture ==
    \/ SetupOnce
    \/ Capture
    \/ DriverCaptureScreenshot
    \/ DriverSaveScreenshot
    \/ DriverDisconnect
    \/ InstrumentError

InitCapture == Start /\ bus = <<>>

SpecCapture == InitCapture /\ [][NextCapture]_vars

(***************************************************************************)
(* SpecErrors: draining the error queue.  The driver is connected and the  *)
(* instrument holds any queue of answers.                                  *)
(***************************************************************************)
ErrQueues == UNION {[1..n -> ErrResponses] : n \in 0..MaxErrQ}

InitErrors ==
    /\ \E q \in ErrQueues : errq = q
    /\ scope = [id |-> 1, address |-> "USB0", adaptor |-> 1, rm |-> TRUE]
    /\ scope_addr = "USB0"
    /\ selected_scope_driver = TektronixScopeDriver
    /\ instrument_list = <<>>
    /\ device_id = <<"addr", "USB0">>
    /\ handles = <<[owner |-> 1, closes |-> 0]>>
    /\ drivers = 1
    /\ files = {}
    /\ disk = None
    /\ sidecar = None
    /\ waveform = None
    /\ config = DefaultConfig
    /\ logger = NewLogger
    /\ recent = NoRecent
    /\ controller = NewController
    /\ gui = NewGui
    /\ bus = <<>>
    /\ last = [op |-> "init", ret |-> None, exc |-> "", ev |-> <<>>]

NextErrors == DriverCheckErrors

SpecErrors == InitErrors /\ [][NextErrors]_vars

(***************************************************************************)
(* SpecFind: discovery.  scan_for_instruments on every bus of at most      *)
(* MaxBus addresses and every way the addresses can answer.                *)
(***************************************************************************)
InitFind == Start /\ bus \in AllBuses

NextFind == ScanForInstruments

SpecFind == InitFind /\ [][NextFind]_vars

(***************************************************************************)
(* SpecLegacy: the legacy controller.  scan_for_devices runs again and     *)
(* again on every bus of at most MaxBus addresses.                         *)
(***************************************************************************)
NextLegacy == ScanForDevices

SpecLegacy == InitFind /\ [][NextLegacy]_vars

(***************************************************************************)
(* SpecDriver: one driver session.  A driver is constructed, then any      *)
(* sequence of connects, address assignments and disconnects runs on it.   *)
(***************************************************************************)
NextDriver ==
    \/ SetupOnce
    \/ DriverConnect
    \/ DriverSetAddress
    \/ DriverDisconnect

SpecDriver == InitCapture /\ [][NextDriver]_vars

(***************************************************************************)
(* SpecProvision: connections and captures.  One driver is constructed,    *)
(* then connects, address assignments, disconnects and captures run on it. *)
(***************************************************************************)
NextProvision ==
    \/ SetupOnce
    \/ DriverConnect
    \/ DriverSetAddress
    \/ DriverDisconnect
    \/ DriverCaptureScreenshot

SpecProvision == InitCapture /\ [][NextProvision]_vars

(***************************************************************************)
(* SpecSave: the local files.  One driver is set up, then captures with    *)
(* metadata run, the local file system answering in every way.             *)
(***************************************************************************)
NextSave ==
    \/ SetupOnce
    \/ CaptureWithMetadata

SpecSave == InitCapture /\ [][NextSave]_vars

(***************************************************************************)
(* SpecWaveform: the waveform export.  A driver is set up, connected or    *)
(* not, and _save_waveform_data runs against every answer of the           *)
(* instrument and of the local file system.                                *)
(***************************************************************************)
NextWaveform ==
    \/ SetupScope
    \/ DriverSaveWaveform

SpecWaveform == InitCapture /\ [][NextWaveform]_vars

(***************************************************************************)
(* SpecParse: scpi_id_parser as a function of its argument.                *)
(***************************************************************************)
NextParse == ParseIdentity

SpecParse == InitCapture /\ [][NextParse]_vars

(***************************************************************************)
(* SpecRecent: the recent-directories list, from the default               *)
(* configuration, under every sequence of set_save_directory calls.        *)
(***************************************************************************)
NextRecent == SetSaveDirectory

SpecRecent == InitCapture /\ [][NextRecent]_vars

(***************************************************************************)
(* SpecConfig: the settings.  AppConfig.__init__ loads the configuration   *)
(* file over the defaults, so that the flags and the file format start at  *)
(* any value a file can hold.                                              *)
(***************************************************************************)
InitConfig ==
    /\ scope = NoScope
    /\ scope_addr = NoAddr
    /\ selected_scope_driver = NoDriverClass
    /\ instrument_list = <<>>
    /\ device_id = None
    /\ handles = <<>>
    /\ drivers = 0
    /\ errq = <<>>
    /\ files = {}
    /\ disk = None
    /\ sidecar = None
    /\ waveform = None
    /\ \E a \in BOOLEAN, d \in BOOLEAN, f \in FileFormats :
          config = [DefaultConfig EXCEPT !.auto_increment = a, !.datestamp = d,
                                         !.file_format = f]
    /\ logger = NewLogger
    /\ recent = NoRecent
    /\ controller = NewController
    /\ gui = NewGui
    /\ bus = <<>>
    /\ last = [op |-> "init", ret |-> None, exc |-> "", ev |-> <<>>]

NextConfig ==
    \/ SetAutoIncrement
    \/ SetDatestamp
    \/ UpdateConfig
    \/ GetDefaultFileFormat
    \/ SetDefaultFileFormat
    \/ SetMetadataFields
    \/ SetFilename
    \/ SetDefaultFilename
    \/ GetFilenameWithSuffix
    \/ GetConfig

SpecConfig == InitConfig /\ [][NextConfig]_vars

(***************************************************************************)
(* SpecFlags: the configuration a fresh AppConfig holds, under any         *)
(* sequence of its mutating operations.                                    *)
(***************************************************************************)
NextFlags ==
    \/ SetAutoIncrement
    \/ SetDatestamp
    \/ UpdateConfig
    \/ GetDefaultFileFormat
    \/ SetDefaultFileFormat
    \/ SetMetadataFields
    \/ SetFilename
    \/ SetDefaultFilename
    \/ GetFilenameWithSuffix
    \/ GetConfig

SpecFlags == InitCapture /\ [][NextFlags]_vars

(***************************************************************************)
(* SpecNames: the file name functions of utils.py, each applied to the     *)
(* arguments the initial state draws.                                      *)
(***************************************************************************)
InitNames ==
    /\ scope = NoScope
    /\ scope_addr = NoAddr
    /\ selected_scope_driver = NoDriverClass
    /\ instrument_list = <<>>
    /\ device_id = None
    /\ handles = <<>>
    /\ drivers = 0
    /\ errq = <<>>
    /\ files = {}
    /\ disk = None
    /\ sidecar = None
    /\ waveform = None
    /\ config = DefaultConfig
    /\ logger = NewLogger
    /\ recent = NoRecent
    /\ controller = NewController
    /\ gui = NewGui
    /\ bus = <<>>
    /\ \E filename \in FileNames, suffix \in Suffixes :
          last = [op |-> "arguments", filename |-> filename, suffix |-> suffix]

NextNames == FilenameWithSuffix \/ IncrementFilename

SpecNames == InitNames /\ [][NextNames]_vars

(***************************************************************************)
(* SpecBase: a driver of the base class ScopeDriver, which overrides none  *)
(* of the optional methods, set up, connected, disconnected and asked to   *)
(* capture.                                                                *)
(***************************************************************************)
NextBase ==
    \/ SetupBaseScope
    \/ DriverConnect
    \/ DriverDisconnect
    \/ BaseCaptureScreenshot
    \/ BaseSaveWaveform
    \/ Capture

SpecBase == InitCapture /\ [][NextBase]_vars

(***************************************************************************)
(* SpecLogger: a Logger, its listeners registered and removed, its level   *)
(* changed, and messages logged at every level.                            *)
(***************************************************************************)
NextLogger ==
    \/ LogMessage
    \/ ClearLog
    \/ AddCallback
    \/ RemoveCallback
    \/ SetMinLevel

SpecLogger == InitCapture /\ [][NextLogger]_vars

(***************************************************************************)
(* SpecFanOut: a Logger whose listeners register and remove callbacks      *)
(* while a log call is notifying them.                                     *)
(***************************************************************************)
NextFanOut ==
    \/ LogMessage
    \/ ClearLog
    \/ AddListener
    \/ RemoveListener
    \/ SetMinLevel

SpecFanOut == InitCapture /\ [][NextFanOut]_vars

(***************************************************************************)
(* SpecInto: captures into the directory given or into the configured      *)
(* one, after one setup.                                                   *)
(***************************************************************************)
NextInto == SetupOnce \/ CaptureInto

SpecInto == InitCapture /\ [][NextInto]_vars

(***************************************************************************)
(* SpecAuto: automatic setup.  The bus is scanned and auto_setup_scope     *)
(* picks a driver from what the scan found, on every bus of at most MaxBus *)
(* addresses.                                                              *)
(***************************************************************************)
NextAuto ==
    \/ ScanForInstruments
    \/ AutoSetupScope
    \/ Disconnect

SpecAuto == InitFind /\ [][NextAuto]_vars

(***************************************************************************)
(* SpecDrain: check_errors iteration by iteration, against an instrument   *)
(* that may queue a new error at any moment.  While the loop runs last.op  *)
(* is "check_errors.loop" and last.ret the list errors, every record of   *)
(* it; the model follows the loop until the list holds MaxDrain records.   *)
(* The thread that runs the loop is never suspended for ever: every query  *)
(* is answered or times out, hence the weak fairness of DrainStep.         *)
(***************************************************************************)

\* check_errors is called: errors = []
DrainStart ==
    /\ scope # NoScope
    /\ last.op # "check_errors.loop"
    /\ last' = [op |-> "check_errors.loop", ret |-> <<>>, exc |-> "", ev |-> <<>>]
    /\ UNCHANGED <<scope, scope_addr, selected_scope_driver, instrument_list,
                   device_id, handles, drivers, errq, files, disk, sidecar, waveform, config, logger, recent, controller, gui, bus>>

\* the state after one iteration of the while loop that left the context e
DrainIteration(e) ==
    /\ errq' = e.errq
    /\ last' = IF e.exc # ""
               THEN [op |-> "check_errors", ret |-> None, exc |-> e.exc, ev |-> e.ev]
               ELSE IF e.ret[1] # 0
               THEN [op |-> "check_errors.loop", ret |-> Append(last.ret, e.ret),
                     exc |-> "", ev |-> e.ev]
               ELSE [op |-> "check_errors", ret |-> last.ret, exc |-> "", ev |-> e.ev]
    /\ UNCHANGED <<scope, scope_addr, selected_scope_driver, instrument_list,
                   device_id, handles, drivers, files, disk, sidecar, waveform, config, logger, recent, controller, gui, bus>>

\* one iteration of the while loop of check_errors; the query may time out
DrainStep ==
    /\ last.op = "check_errors.loop"
    /\ Len(last.ret) < MaxDrain
    /\ \E e \in {next_error(Ctx(scope, <<>>, fails)) : fails \in {{}, {1}}} :
            DrainIteration(e)

\* The instrument queues an error while the loop runs.
InstrumentRequeues ==
    /\ Len(errq) < MaxPending
    /\ \E r \in PendingResponses : errq' = Append(errq, r)
    /\ UNCHANGED <<scope, scope_addr, selected_scope_driver, instrument_list,
                   device_id, handles, drivers, files, disk, sidecar, waveform, config, logger, recent, controller, gui, bus, last>>

NextDrain ==
    \/ DrainStart
    \/ DrainStep
    \/ InstrumentRequeues

SpecDrain == InitErrors /\ [][NextDrain]_vars /\ WF_vars(DrainStep)

(***************************************************************************)
(* The properties.                                                         *)
(***************************************************************************)
CaptureOps == {"capture", "capture_screenshot", "save_screenshot"}

\* C1: a driver session never holds more than one open transport handle:
\* of the handles a driver object opened, at most one is not yet closed.
C1_AtMostOneOpenHandle ==
    \A id \in 1..drivers : Cardinality(OpenOf(handles, id)) <= 1

\* C2: whenever the orchestrator replaces the driver it holds by a new one,
\* the handle the previous driver was connected through has been closed.
C2_PreviousDriverDisconnected ==
    [][(scope # NoScope /\ scope' # NoScope /\ scope'.id # scope.id
        /\ scope.adaptor # 0)
       => handles'[scope.adaptor].closes > 0]_vars

\* C3: when find_instruments returns or raises, every transient session it
\* opened has been closed exactly once, and it opened one for each address
\* it probed whose open succeeded.
C3_SessionsClosedOnce ==
    last.op = "scan_for_instruments" =>
        /\ \A k \in 1..Len(last.ev) : last.ev[k].closes = 1
        /\ \A k \in 1..Len(last.ev) :
              \E i \in 1..Len(bus) : bus[i].addr = last.ev[k].addr /\ bus[i].open = ""
        /\ last.exc = "" =>
              Len(last.ev) = Cardinality({i \in 1..Len(bus) : bus[i].open = ""})

C3_Witness ==
    /\ last.op = "scan_for_instruments"
    /\ Len(bus) = 2
    /\ bus[1].open = "" /\ bus[1].query = ErrVisa
    /\ bus[2].open = "" /\ bus[2].query = ErrForeign
    /\ last.exc = ErrForeign
    /\ Len(last.ev) = 2

\* C4: a failure while probing one address never aborts the scan: when the
\* enumeration succeeded, find_instruments returns one record per address,
\* and the record of an address whose open or identity query failed has
\* all four identity fields absent.
C4_ProbeFailureNeverAborts ==
    (last.op = "scan_for_instruments" /\ ~last.list_fails) =>
        /\ last.exc = ""
        /\ Len(last.ret) = Len(bus)
        /\ \A k \in 1..Len(bus) :
              /\ last.ret[k].addr = bus[k].addr
              /\ (bus[k].open # "" \/ bus[k].query # "") =>
                    /\ last.ret[k].manufacturer = None
                    /\ last.ret[k].model_num = None
                    /\ last.ret[k].serial_num = None
                    /\ last.ret[k].software_rev = None

\* The calls of the capture sequence, in the order the protocol demands.
CaptureSteps ==
    << [op |-> "write", cmd |-> SaveImage], [op |-> "query", cmd |-> OpcQuery],
       [op |-> "write", cmd |-> ReadFile], [op |-> "read_raw", cmd |-> ReadRaw],
       [op |-> "write", cmd |-> DeleteTemp] >>

\* The calls of the last handler that belong to the capture sequence: all
\* but the SYST:ERR? query of the failure handler.
CaptureCalls == SelectSeq(last.ev, LAMBDA e : e.cmd # ErrQuery)

\* C5: the calls of a capture are a prefix of SAVE:IMAGe, *OPC?, READFile,
\* read_raw, DELEte, each made only after the one before it has returned;
\* a capture that returns has made all five.
C5_CaptureOrder ==
    last.op \in CaptureOps =>
        /\ Len(CaptureCalls) <= Len(CaptureSteps)
        /\ \A i \in 1..Len(CaptureCalls) :
              /\ CaptureCalls[i].op = CaptureSteps[i].op
              /\ CaptureCalls[i].cmd = CaptureSteps[i].cmd
              /\ i < Len(CaptureCalls) => CaptureCalls[i].ok
        /\ (last.exc \in {"", ErrOS} /\ last.ev # <<>>) =>
              Len(CaptureCalls) = Len(CaptureSteps)

C5_Witness ==
    /\ last.op = "capture"
    /\ last.exc = ""
    /\ Len(last.ev) = 5
    /\ last.ev[2].cmd = OpcQuery /\ last.ev[3].cmd = ReadFile

\* C6: when capture_screenshot returns image bytes, the delete of
\* C:/temp/temp.png has been delivered after the read and the instrument's
\* working directory holds no temp file.
C6_TempFileDeleted ==
    (last.op = "capture_screenshot" /\ last.exc = "") =>
        /\ last.ret = ImgBytes
        /\ \E i \in 1..Len(last.ev) :
              /\ last.ev[i].cmd = DeleteTemp /\ last.ev[i].ok
              /\ \E j \in 1..(i - 1) : last.ev[j].cmd = ReadRaw /\ last.ev[j].ok
        /\ TempPng \notin files

C6_Witness ==
    /\ last.op = "capture_screenshot"
    /\ last.exc = ""
    /\ last.ret = ImgBytes
    /\ files = {}

\* C7: capture on an orchestrator whose driver is not connected is rejected
\* with "No oscilloscope connected" and issues no instrument command.
C7_CaptureRejectsWhenNotConnected ==
    (last.op = "capture" /\ ~SimpleScope_is_connected(Self)) =>
        (last.exc = ErrNoScope /\ last.ev = <<>>)

\* C8: a capture or save_screenshot whose capture sequence failed leaves
\* the destination image file as it was: not created, not modified.
C8_NoFileOnFailedCapture ==
    [][(last'.op \in {"capture", "save_screenshot"}
        /\ last'.exc \notin {"", ErrOS})
       => disk' = disk]_vars

C8_Witness ==
    /\ last.op = "save_screenshot"
    /\ last.exc = ErrVisa
    /\ \E i \in 1..Len(last.ev) : last.ev[i].cmd = ReadRaw /\ ~last.ev[i].ok
    /\ disk = ImgBytes

\* C9: when one of the steps save image, operation-complete poll, read file
\* raises and the exception is re-raised, the error queue has been drained:
\* the instrument holds no pending error.
C9_ErrorQueueDrained ==
    (/\ last.op \in CaptureOps
     /\ last.exc = ErrVisa
     /\ \E i \in 1..Len(last.ev) : i <= 3 /\ ~last.ev[i].ok
     /\ \A i \in 1..Len(last.ev) : last.ev[i].cmd = ErrQuery => last.ev[i].ok)
    => errq = <<>>

\* What each answer to SYST:ERR? says, read off the answer by hand.
RecordOf(r) ==
    CASE r = NoError -> <<0, <<"N", "o">>>>
      [] r = Err5 -> <<5, <<"a", ",", "b">>>>
      [] r = Err3 -> <<3, <<"c">>>>
      [] r = ErrNeg -> <<0 - 10, <<>>>>

\* The answers an instrument with queue q gives: q, then "no error".
Stream(q) == q \o <<NoError>>

\* The position of the first code-0 answer.
ZeroAt(q) ==
    CHOOSE i \in 1..Len(Stream(q)) :
        Stream(q)[i] = NoError /\ \A j \in 1..(i - 1) : Stream(q)[j] # NoError

\* C10: check_errors returns the records of the answers before the first
\* code 0, in order, and its last SYST:ERR? query is the one answered 0:
\* the answers after it stay in the queue.
C10_CheckErrorsUpToFirstZero ==
    [][(last'.op = "check_errors" /\ last'.exc = "")
       => /\ last'.ret = [i \in 1..(ZeroAt(errq) - 1) |-> RecordOf(errq[i])]
          /\ Len(last'.ev) = ZeroAt(errq)
          /\ errq' = SubSeq(errq, ZeroAt(errq) + 1, Len(errq))]_vars

C10_Witness ==
    /\ last.op = "check_errors"
    /\ last.exc = ""
    /\ Len(last.ret) = 2
    /\ last.ret[1][1] = 5 /\ last.ret[2][1] = 3
    /\ Len(last.ev) = 3

\* C11: the drain loop of check_errors is guarded: against an instrument
\* that answers every SYST:ERR? query with a non-zero code the loop ends
\* after a limited number of iterations.  The limit is read as any number
\* of iterations the model follows: a loop still running has collected
\* fewer than MaxDrain records.
C11_DrainLoopGuarded ==
    last.op = "check_errors.loop" => Len(last.ret) < MaxDrain

\* C12: connect never raises for a connection error: with no address set,
\* or when the open fails, it returns False and the session is left
\* disconnected.
C12_ConnectNeverRaises ==
    last.op = "connect" =>
        /\ last.exc = ""
        /\ last.ret = FALSE => ~is_connected(scope)

\* The entries of a discovery result that name a Tektronix MSO5x.
TekEntries(list) ==
    {k \in 1..Len(list) :
        /\ list[k].manufacturer # None
        /\ list[k].model_num # None
        /\ \E i \in 1..Len(list[k].manufacturer) : list[k].manufacturer[i] = "TEKTRONIX"
        /\ \E i \in 1..Len(list[k].model_num) : list[k].model_num[i] = "MSO5"}

\* C13: auto_setup_scope takes the first entry of the discovery result that
\* names a Tektronix MSO5x, whatever entries precede it, and tries to
\* connect the Tektronix driver to its address; with no such entry it
\* returns False, raises nothing and opens nothing.
C13_AutoSetupSelectsFirstTektronix ==
    last.op = "auto_setup_scope" =>
        /\ last.exc = ""
        /\ TekEntries(instrument_list) = {} =>
              (last.ret = FALSE /\ last.ev = <<>>)
        /\ TekEntries(instrument_list) # {} =>
              LET k == CHOOSE j \in TekEntries(instrument_list) :
                          \A i \in TekEntries(instrument_list) : j <= i
              IN  /\ selected_scope_driver = TektronixScopeDriver
                  /\ scope_addr = instrument_list[k].addr
                  /\ \E i \in 1..Len(last.ev) : last.ev[i].op = "open"

\* C14: a capture_screenshot whose delete of the temp file failed, after the
\* image bytes were read, returns the bytes and raises nothing.
C14_DeleteFailureOnlyLogged ==
    (/\ last.op = "capture_screenshot"
     /\ \E i \in 1..Len(last.ev) : last.ev[i].cmd = DeleteTemp /\ ~last.ev[i].ok)
    => (last.exc = "" /\ last.ret = ImgBytes)

\* C15: ScopeDriver.disconnect raises nothing and leaves the session not
\* connected; it closes the handle the session holds, once, and nothing
\* else; on a session that holds none it closes nothing.  No handle is
\* ever closed twice.
C15_DisconnectIdempotent ==
    [][/\ \A h \in 1..Len(handles') : handles'[h].closes <= 1
       /\ last'.op = "driver.disconnect" =>
            /\ last'.exc = ""
            /\ ~is_connected(scope')
            /\ scope.adaptor = 0 => (handles' = handles /\ last'.ev = <<>>)
            /\ scope.adaptor # 0 =>
                  /\ handles' = [handles EXCEPT ![scope.adaptor].closes = @ + 1]
                  /\ Len(last'.ev) = 1
                  /\ last'.ev[1].op = "close" /\ last'.ev[1].h = scope.adaptor]_vars

\* A second disconnect in a row, on a session whose handle the first closed.
C15_Witness ==
    /\ last.op = "driver.disconnect"
    /\ last.ev = <<>>
    /\ scope.adaptor = 0
    /\ \E h \in 1..Len(handles) : handles[h].owner = scope.id /\ handles[h].closes = 1

\* C16: a capture that follows a handler in which the Tektronix driver
\* connected (construction, connect, address assignment) finds the working
\* directory provisioned by that handler: after the successful open the
\* handler made the directory and listed it.
C16_ConnectProvisionsDirectory ==
    [][(/\ last.op \in {"setup_scope", "connect", "address"}
        /\ \E i \in 1..Len(last.ev) : last.ev[i].op = "open" /\ last.ev[i].ok
        /\ last'.op = "capture_screenshot"
        /\ last'.ev # <<>>)
       => \E i, j, k \in 1..Len(last.ev) :
            /\ i < j /\ j < k
            /\ last.ev[i].op = "open" /\ last.ev[i].ok
            /\ last.ev[j].cmd = MkDir
            /\ last.ev[k].cmd = DirQuery]_vars

\* The capture sequence of the last handler ran to its end.
CaptureSequenceDone(l) ==
    Len(l.ev) = Len(CaptureSteps) /\ \A i \in 1..Len(l.ev) : l.ev[i].ok

\* C17: capture writes the image file before the metadata file: the
\* metadata file is touched only once the image is saved whole; and when
\* the metadata file cannot be written the saved image stays as written.
C17_ImageBeforeMetadata ==
    [][last'.op = "capture" =>
        /\ sidecar' # sidecar =>
              (CaptureSequenceDone(last') /\ last'.image = "ok" /\ disk' = ImgBytes)
        /\ (/\ CaptureSequenceDone(last')
            /\ last'.image = "ok"
            /\ last'.metadata \notin {None, <<>>}
            /\ last'.sidecar # "ok")
           => (disk' = ImgBytes /\ last'.exc = ErrOS)]_vars

\* The metadata file was opened and its write failed, the image was saved.
C17_Witness ==
    /\ last.op = "capture"
    /\ last.image = "ok"
    /\ last.metadata = <<"k: v">>
    /\ last.sidecar = "write"
    /\ last.exc = ErrOS
    /\ sidecar = <<>>
    /\ disk = ImgBytes

\* C18: when a step of the waveform export fails the exception does not
\* reach the caller and no waveform file exists at the target path, where
\* none existed before.
C18_NoWaveformFileOnFailure ==
    [][(/\ last'.op = "_save_waveform_data"
        /\ last'.caught # ""
        /\ waveform = None)
       => (last'.exc = "" /\ waveform' = None)]_vars

\* The identification string as the claim reads it: a str that is not
\* empty, its fields being what stands between the commas.
IsInput(x) == x # None /\ x # Bytes /\ x # <<>>
CommaAt(s, k) ==
    IF k = 0 THEN 0
    ELSE IF k > Cardinality({i \in 1..Len(s) : s[i] = ","}) THEN Len(s) + 1
    ELSE CHOOSE i \in 1..Len(s) :
            s[i] = "," /\ Cardinality({j \in 1..i : s[j] = ","}) = k
FieldCount(s) == Cardinality({i \in 1..Len(s) : s[i] = ","}) + 1
FieldAt(s, k) == SubSeq(s, CommaAt(s, k - 1) + 1, CommaAt(s, k) - 1)
\* t is f without the whitespace around it
Trimmed(f, t) ==
    /\ t = <<>> \/ (t[1] \notin Whitespace /\ t[Len(t)] \notin Whitespace)
    /\ \E i \in 0..Len(f) :
        /\ i + Len(t) <= Len(f)
        /\ SubSeq(f, i + 1, i + Len(t)) = t
        /\ \A j \in (1..i) \cup ((i + Len(t) + 1)..Len(f)) : f[j] \in Whitespace
AllAbsent(r) ==
    /\ r.manufacturer = None /\ r.model_num = None
    /\ r.serial_num = None /\ r.software_rev = None
FourFields(s, r) ==
    /\ Trimmed(FieldAt(s, 1), r.manufacturer) /\ Trimmed(FieldAt(s, 2), r.model_num)
    /\ Trimmed(FieldAt(s, 3), r.serial_num) /\ Trimmed(FieldAt(s, 4), r.software_rev)

\* C19: a string of exactly 4 comma-separated fields is parsed into the 4
\* fields by position, trimmed; a string of fewer than 4 fields gives
\* four absent fields; there is no input the parser raises for: an empty
\* string and a value that is not a string give four absent fields too.
C19_ParserNeverRaises ==
    last.op = "scpi_id_parser" =>
        /\ last.exc = ""
        /\ (IsInput(last.arg) /\ FieldCount(last.arg) = 4)
               => FourFields(last.arg, last.ret)
        /\ (~IsInput(last.arg) \/ FieldCount(last.arg) < 4) => AllAbsent(last.ret)

C19_Witness ==
    /\ last.op = "scpi_id_parser"
    /\ IsInput(last.arg) /\ FieldCount(last.arg) = 4
    /\ FieldAt(last.arg, 3) = <<" ", "C", "0", "1">>
    /\ last.ret.serial_num = <<"C", "0", "1">>
    /\ FieldAt(last.arg, 4) = <<"1", ".", "2", "\n">>
    /\ last.ret.software_rev = <<"1", ".", "2">>

\* C20: the list find_instruments returns holds exactly one record per
\* address the enumeration returned, in the order of the enumeration,
\* record k carrying the 0-based index n = k; an enumeration that returns
\* no address gives an empty list and no error.
C20_OneRecordPerAddressInOrder ==
    last.op = "scan_for_instruments" =>
        /\ last.exc = "" =>
              /\ Len(last.ret) = Len(bus)
              /\ \A k \in 1..Len(bus) :
                    last.ret[k].addr = bus[k].addr /\ last.ret[k].n = k - 1
        /\ (~last.list_fails /\ bus = <<>>) => (last.exc = "" /\ last.ret = <<>>)

C20_Witness ==
    /\ last.op = "scan_for_instruments"
    /\ last.exc = ""
    /\ Len(bus) = 2
    /\ bus[1].open = ErrVisa
    /\ bus[2].open = "" /\ bus[2].query = ""
    /\ Len(last.ret) = 2
    /\ last.ret[1].n = 0 /\ last.ret[2].n = 1
    /\ last.ret[2].addr = bus[2].addr

\* C21: when the enumeration of the bus itself fails (list_resources
\* raises), find_instruments does not raise to its caller.
C21_EnumerationFailureNotRaised ==
    (last.op = "scan_for_instruments" /\ last.list_fails) => last.exc = ""

\* C22: right after a call of set_auto_increment or set_datestamp that sets
\* its flag to true, the other flag is false, whatever the calls before.
C22_FlagsMutuallyExclusive ==
    /\ (last.op = "set_auto_increment" /\ last.arg)
          => (config.auto_increment /\ ~config.datestamp)
    /\ (last.op = "set_datestamp" /\ last.arg)
          => (config.datestamp /\ ~config.auto_increment)

C22_Witness ==
    /\ last.op = "set_auto_increment" /\ last.arg
    /\ config.auto_increment /\ ~config.datestamp

\* C23: immediately after set_save_directory(d), d is the first element of
\* recent_directories, also when d was in the list before the call.
C23_MostRecentFirst ==
    last.op = "set_save_directory" =>
        /\ config.recent_directories # <<>>
        /\ config.recent_directories[1] = str(last.arg)

\* C24: after any sequence of set_save_directory calls from the default
\* configuration recent_directories holds at most 5 entries.
C24_AtMostFiveRecent == Len(config.recent_directories) <= 5

C24_Witness ==
    /\ last.op = "set_save_directory"
    /\ Len(config.recent_directories) = 5
    /\ \A i, j \in 1..5 : i # j => config.recent_directories[i] # config.recent_directories[j]
    /\ config.recent_directories[1] = "d6"

\* C25: after any sequence of set_save_directory calls from the default
\* configuration recent_directories holds no directory twice.
C25_NoDuplicateRecent ==
    \A i, j \in 1..Len(config.recent_directories) :
        i # j => config.recent_directories[i] # config.recent_directories[j]

\* C26: filename_with_suffix applied to its own result, with the same
\* suffix, returns that result again, and a suffix given without a leading
\* dot gives the same name as the suffix with the dot in front.
C26_SuffixIdempotent ==
    last.op = "filename_with_suffix" =>
        /\ last.again = last.ret
        /\ (last.suffix = <<>> \/ Head(last.suffix) # ".") => last.dotted = last.ret

C26_Witness ==
    /\ last.op = "filename_with_suffix"
    /\ last.filename = <<"c">> /\ last.suffix = <<"c">>
    /\ last.ret = <<"c", ".", "c">>
    /\ last.again = last.ret /\ last.dotted = last.ret

\* The extension of a file name starts at its last dot, unless that dot
\* is the first or the last character; ExtAt is Len + 1 without extension.
ExtAt(name) ==
    LET dots == {i \in 1..Len(name) : name[i] = "."}
        lastdot == CHOOSE i \in dots : \A j \in dots : j <= i
    IN  IF dots = {} THEN Len(name) + 1
        ELSE IF 1 < lastdot /\ lastdot < Len(name) THEN lastdot
        ELSE Len(name) + 1
AllDigits(s) == \A i \in 1..Len(s) : s[i] \in DigitChars
\* the widths k for which the stem ends in an underscore and k digits
CounterWidths(stem) ==
    {k \in 1..(Len(stem) - 1) :
        stem[Len(stem) - k] = "_" /\ AllDigits(SubSeq(stem, Len(stem) - k + 1, Len(stem)))}
RECURSIVE Pow10(_)
Pow10(n) == IF n = 0 THEN 1 ELSE 10 * Pow10(n - 1)
RECURSIVE DecimalValue(_)
DecimalValue(s) ==
    IF s = <<>> THEN 0 ELSE DigitVal(Head(s)) * Pow10(Len(s) - 1) + DecimalValue(Tail(s))
\* out is the number after ds, in the width of ds or one digit wider when
\* it no longer fits
IsNextCounter(ds, out) ==
    /\ AllDigits(out)
    /\ DecimalValue(out) = DecimalValue(ds) + 1
    /\ \/ Len(out) = Len(ds)
       \/ Len(out) = Len(ds) + 1 /\ out[1] # "0"
IncrementedName(name, ret) ==
    LET e == ExtAt(name)
        stem == SubSeq(name, 1, e - 1)
        ext == SubSeq(name, e, Len(name))
    IN  IF CounterWidths(stem) # {}
        THEN \E k \in CounterWidths(stem) :
                LET head == SubSeq(stem, 1, Len(stem) - k)
                    ds == SubSeq(stem, Len(stem) - k + 1, Len(stem))
                IN  /\ Len(ret) >= Len(head) + Len(ds) + Len(ext)
                    /\ SubSeq(ret, 1, Len(head)) = head
                    /\ SubSeq(ret, Len(ret) - Len(ext) + 1, Len(ret)) = ext
                    /\ IsNextCounter(ds, SubSeq(ret, Len(head) + 1, Len(ret) - Len(ext)))
        ELSE ret = stem \o <<"_", "0", "0", "1">> \o ext

\* C27: increment_filename maps a name whose stem ends in _<digits> to the
\* name with the number increased by one, padded with zeros to the width
\* it had and one digit wider when the number no longer fits; a name
\* without such an ending gets _001 put before its extension.
C27_IncrementFilename ==
    last.op = "increment_filename" => IncrementedName(last.filename, last.ret)

C27_Witness ==
    /\ last.op = "increment_filename"
    /\ last.filename = <<"capture", "_", "9", "9", "9", ".", "png">>
    /\ last.ret = <<"capture", "_", "1", "0", "0", "0", ".", "png">>

\* C28: a call of capture_screenshot or _save_waveform_data on the base
\* ScopeDriver, with any arguments, raises NotImplementedError.
C28_UnsupportedOperationRaises ==
    last.op \in {"ScopeDriver.capture_screenshot", "ScopeDriver._save_waveform_data"}
        => last.exc = ErrNotImplemented

\* C29: a log call at or above min_level appends its entry to the log and
\* calls every registered callback with it, in order, also after a
\* callback that raises; the log call itself does not raise.
C29_FanOutSurvivesFaultyListeners ==
    (last.op = "_log" /\ last.arg >= logger.min_level) =>
        /\ last.exc = ""
        /\ logger.entries # <<>>
        /\ logger.entries[Len(logger.entries)].level = LevelName(last.arg)
        /\ Len(last.ev) = Len(logger.callbacks)
        /\ \A i \in 1..Len(logger.callbacks) :
              /\ last.ev[i].callback = logger.callbacks[i]
              /\ last.ev[i].entry = logger.entries[Len(logger.entries)]

C29_Witness ==
    /\ last.op = "_log" /\ last.arg = WARNING /\ logger.min_level = INFO
    /\ Len(logger.callbacks) = 2
    /\ logger.callbacks[1].raises # "" /\ logger.callbacks[2].raises = ""
    /\ Len(last.ev) = 2 /\ last.ev[2].callback = logger.callbacks[2]
    /\ last.exc = ""

\* C30: after a successful SimpleScope.capture the configuration's save
\* directory is the directory the image was written to and that directory
\* is in the recent-directories list; with save_dir left out the
\* directory written to is the save directory configured before the call.
C30_CaptureFeedsSaveDirectory ==
    [][(/\ last'.op = "capture"
        /\ "dir" \in DOMAIN last'
        /\ last'.exc = "")
       => /\ config'.save_directory = str(last'.dir)
          /\ \E i \in 1..Len(config'.recent_directories) :
                config'.recent_directories[i] = str(last'.dir)
          /\ last'.save_dir = NoDir => str(last'.dir) = config.save_directory]_vars

C30_Witness ==
    /\ last.op = "capture" /\ "dir" \in DOMAIN last /\ last.exc = ""
    /\ last.save_dir = PathDir("d2")
    /\ disk # None
    /\ config.save_directory = "d2"
    /\ config.recent_directories = <<"d2", "d1">>

\* C31: a capture that fails on a connected driver leaves the session as it
\* was: the driver holds the same transport handle, the handle is open,
\* is_connected() is true, and a capture issued next, with no connect in
\* between, returns the image if the transport answers.
C31_FailedCaptureKeepsSession ==
    [][(/\ last'.op \in CaptureOps
        /\ last'.exc # ""
        /\ scope # NoScope
        /\ is_connected(scope))
       => /\ scope' = scope
          /\ is_connected(scope')
          /\ handles' = handles
          /\ handles'[scope'.adaptor].closes = 0
          /\ LET next == get_screenshot_brian(
                            [d |-> scope', hs |-> handles', errq |-> errq',
                             files |-> files', ev |-> <<>>, n |-> 0,
                             opens |-> <<>>, fails |-> {}, exc |-> "",
                             ret |-> None])
             IN  next.exc = "" /\ next.ret = ImgBytes]_vars

C31_Witness ==
    /\ last.op = "capture_screenshot"
    /\ last.exc = ErrVisa
    /\ \E i \in 1..Len(last.ev) : last.ev[i].cmd = OpcQuery /\ ~last.ev[i].ok
    /\ scope # NoScope
    /\ is_connected(scope)
    /\ handles[scope.adaptor].closes = 0

\* C32: an address assignment on a connected driver closes the handle the
\* driver held before anything is opened, and when the new address is None
\* or the open of the new address fails the driver ends with no handle:
\* is_connected() is false.
C32_ReassignClosesBeforeOpen ==
    [][(/\ last'.op = "address"
        /\ scope # NoScope
        /\ is_connected(scope))
       => /\ Len(last'.ev) >= 1
          /\ last'.ev[1] = Ev("close", scope.adaptor, NoCmd, TRUE)
          /\ handles'[scope.adaptor].closes = handles[scope.adaptor].closes + 1
          /\ \A i \in 1..Len(last'.ev) : last'.ev[i].op = "open" => i > 1
          /\ (\/ scope'.address = NoAddr
              \/ \E i \in 1..Len(last'.ev) :
                    last'.ev[i].op = "open" /\ ~last'.ev[i].ok)
             => (scope'.adaptor = 0 /\ ~is_connected(scope'))]_vars

C32_Witness ==
    /\ last.op = "address"
    /\ Len(last.ev) = 2
    /\ last.ev[1].op = "close"
    /\ handles[last.ev[1].h].closes = 1
    /\ last.ev[2].op = "open" /\ ~last.ev[2].ok
    /\ scope.address # NoAddr
    /\ ~is_connected(scope)

\* C33: the result of ScopeDriver.connect agrees with the session: after a
\* call connect() or connect(address) that returns, it returned True if
\* and only if is_connected() is true; after one that raises,
\* is_connected() is false.
C33_ConnectResultAgrees ==
    (last.op = "connect" /\ scope # NoScope) =>
        IF last.exc = ""
        THEN (last.ret = TRUE) <=> is_connected(scope)
        ELSE ~is_connected(scope)

\* C34: in every configuration reached from the default one through
\* set_auto_increment, set_datestamp and update_config, auto_increment and
\* datestamp are not both true.
C34_FlagsNeverBothTrue == ~(config.auto_increment /\ config.datestamp)

\* C35: when a call of the capture sequence raises on a connected driver,
\* the exception capture_screenshot raises to its caller is that call's
\* exception (the transport error), whatever the SYST:ERR? query of the
\* failure handler does.
C35_OriginalFailureReachesCaller ==
    (/\ last.op = "capture_screenshot"
     /\ \E i \in 1..Len(last.ev) :
            /\ last.ev[i].cmd # ErrQuery
            /\ ~last.ev[i].ok)
    => last.exc = ErrVisa

\* C36: a SimpleScope.capture that raises, in the driver's capture sequence
\* or in the write of the image file, leaves the configuration (save
\* directory, recent directories, last-used metadata) and
\* SimpleScope.recent as they were before the call.
C36_FailedCaptureKeepsState ==
    [][(last'.op = "capture" /\ last'.exc # "")
       => (config' = config /\ recent' = recent)]_vars

C36_Witness ==
    /\ last.op = "capture" /\ "image" \in DOMAIN last
    /\ last.exc = ErrVisa
    /\ last.metadata = <<>>
    /\ recent.screenshot_data = ImgBytes
    /\ recent.metadata = <<"k: v">>
    /\ config.attr_last_used_metadata = <<"k: v">>
    /\ config.recent_directories = <<DefaultSaveDirectory>>

\* C37: when the legacy scan_for_devices returns, every session it opened
\* during the scan is the device it retains or has been closed, also a
\* session whose *IDN? query raised; and a device held before the scan is
\* closed before the scan opens anything.
C37_ScanRetainsOrCloses ==
    [][(last'.op = "scan_for_devices" /\ last'.exc = "")
       => /\ \A i \in 1..Len(last'.ev) :
                last'.ev[i].op = "open"
                => \/ last'.ev[i].h = controller'.device
                   \/ controller'.sess[last'.ev[i].h].closes = 1
          /\ controller.device # 0
             => /\ last'.ev # <<>>
                /\ last'.ev[1] = [op |-> "close", h |-> controller.device]
                /\ controller'.sess[controller.device].closes = 1]_vars

\* The result of the parser for a string s of more than 4 fields, as the
\* claim reads it: four absent fields, and under "other" the fields from
\* the fifth on, in order.
OtherFields(s, r) ==
    /\ AllAbsent(r)
    /\ r.other = [i \in 1..(FieldCount(s) - 4) |-> FieldAt(s, i + 4)]

\* C39: scpi_id_parser on a string of more than 4 comma-separated parts
\* leaves the four fields absent and stores the parts from the fifth on,
\* in order, under "other"; so a discovery record whose identity has more
\* than 4 parts carries no manufacturer and no model, and auto_setup_scope
\* never sets a driver up for its address.
C39_LongIdentityNeverMatched ==
    /\ \A s \in IdInputs :
          (IsInput(s) /\ FieldCount(s) > 4) => OtherFields(s, scpi_id_parser(s))
    /\ \A k \in 1..Len(instrument_list) :
          (IsInput(instrument_list[k].id) /\ FieldCount(instrument_list[k].id) > 4)
          => /\ OtherFields(instrument_list[k].id, instrument_list[k])
             /\ last.op = "auto_setup_scope"
                => ~(last.ev # <<>> /\ scope_addr = instrument_list[k].addr)

C39_Witness ==
    /\ last.op = "auto_setup_scope"
    /\ last.ret = FALSE
    /\ last.ev = <<>>
    /\ Len(instrument_list) = 1
    /\ instrument_list[1].id = IdnLong
    /\ instrument_list[1].manufacturer = None
    /\ instrument_list[1].other = << <<"x">>, <<"y">> >>

\* How many times x occurs in the sequence list.
Occurrences(list, x) == Cardinality({i \in 1..Len(list) : list[i] = x})

\* C40: in a log call at or above min_level, every callback registered
\* when the call starts is called with the new entry once for each time it
\* is registered, also when a callback registers or removes a callback
\* while the others are being notified.
C40_FanOutReachesEveryListener ==
    [][(last'.op = "_log" /\ last'.arg >= logger.min_level) =>
         \A callback \in Listeners :
            Occurrences(logger.callbacks, callback) > 0 =>
            Occurrences(logger.callbacks, callback) =
                Occurrences(last'.ev,
                            [callback |-> callback,
                             entry |-> logger'.entries[Len(logger'.entries)]])]_vars

====
